---------------------------- MODULE Spec2Model ----------------------------
(***************************************************************************)
(* A model of the iMessage MCP server: the message search engine           *)
(* (messages.ts), the contact resolver (contacts.ts) and the tool layer    *)
(* (index.ts).                                                             *)
(*                                                                         *)
(* Strings are sequences of one-character strings (<<"a","b">> is "ab").   *)
(* A value that is null/undefined in the source is the sequence Null,      *)
(* whose single element is no character, so no string equals it.           *)
(*                                                                         *)
(* A raw archive timestamp (an integer count of nanoseconds) is the record *)
(* [sec |-> q, nano |-> r] standing for q * 1000000000 + r with            *)
(* 0 <= r < 1000000000; the products themselves do not fit TLC's integers. *)
(* The JS arithmetic on timestamps is arithmetic of doubles and is rounded *)
(* as doubles are; the timestamps of the model lie in the first years      *)
(* after 2001-01-01.                                                       *)
(***************************************************************************)
EXTENDS Integers, Sequences, FiniteSets, TLC

VARIABLES
    messagesDb,     \* content of the messaging store (chat.db)
    contactsDbs,    \* the contact stores, in the order they are scanned
    pc,             \* "idle": no tool call in progress; "responded": resp holds a result;
                    \* "stopped": the process has ended
    resp,           \* the result of the last operation
    pager,          \* a caller that pages through searchMessages with hasMore
    faults,         \* the stores whose queries raise an exception
    conns           \* the store connections opened so far, in the order of opening

vars == <<messagesDb, contactsDbs, pc, resp, pager, faults, conns>>

-----------------------------------------------------------------------------
(* Bounds of the model *)

MaxMessages == 2
MaxLimit == 2
MaxOffset == 3
MaxContacts == 3
MaxRun == 6
MaxBlob == 2
MaxSec == 2

-----------------------------------------------------------------------------
(* Strings *)

Null == <<"NULL">>

\* JS truthiness of a string | null | undefined value
Truthy(s) == s # Null /\ s # <<>>

Min(a, b) == IF a < b THEN a ELSE b
Max(a, b) == IF a > b THEN a ELSE b

\* Array.prototype.slice(start, end) / String.prototype.slice with 0 <= start
Slice(s, start, end) ==
    LET e == Min(end, Len(s))
    IN  IF start >= e THEN <<>> ELSE SubSeq(s, start + 1, e)

\* first index of token tok in s, 0 when absent
IndexOf(s, tok) ==
    IF \E i \in 1..Len(s) : s[i] = tok
    THEN CHOOSE i \in 1..Len(s) : s[i] = tok /\ \A j \in 1..(i - 1) : s[j] # tok
    ELSE 0

\* all orderings of a finite set
RECURSIVE Orderings(_)
Orderings(S) ==
    IF S = {} THEN {<<>>}
    ELSE UNION {{<<x>> \o r : r \in Orderings(S \ {x})} : x \in S}

RECURSIVE SeqsUpTo(_, _)
SeqsUpTo(S, n) ==
    IF n = 0 THEN {<<>>}
    ELSE LET shorter == SeqsUpTo(S, n - 1)
         IN  shorter \cup {Append(s, x) : s \in {t \in shorter : Len(t) = n - 1}, x \in S}

-----------------------------------------------------------------------------
(* PaginationCalculator *)

\* Math.ceil(a / b) for integers a >= 0, b >= 1
MathCeilDiv(a, b) == IF a % b = 0 THEN a \div b ELSE (a \div b) + 1

\* a variant that counts one page too many when limit divides total
createPaginationMetadata_PlusOne(total, limit, offset) ==
    [total |-> total,
     limit |-> limit,
     offset |-> offset,
     hasMore |-> offset + limit < total,
     page |-> (offset \div limit) + 1,
     totalPages |-> (total \div limit) + 1]

createPaginationMetadata(total, limit, offset) ==
    [total |-> total,
     limit |-> limit,
     offset |-> offset,
     hasMore |-> offset + limit < total,
     page |-> (offset \div limit) + 1,
     totalPages |-> MathCeilDiv(total, limit)]


-----------------------------------------------------------------------------
(* EpochConverter *)

EpochOffset == 978307200        \* seconds between 1970-01-01 and 2001-01-01
NanosPerSecond == 1000000000
MillisPerSecond == 1000

\* A calendar instant (a JS Date) is [s |-> whole seconds since 1970, ms |-> 0..999];
\* NoDate is an absent bound (undefined).
NoDate == [s |-> 0 - 1, ms |-> 0]

\* A number of calendar seconds held in a JS number (an IEEE-754 double) is
\* [s |-> whole seconds, ticks |-> 0..2^23-1], standing for s + ticks / 2^23:
\* the doubles from 2^29 to 2^30, where the calendar seconds of the first three
\* years after 2001-01-01 lie, are the multiples of 2^-23.
TicksPerSecond == 2^23

\* 1000000000 / 2^23 = 5^9 / 2^14: the nanoseconds in one tick
TickNumerator == NanosPerSecond \div 2^9
TickDenominator == TicksPerSecond \div 2^9

\* quotient and remainder of n * 128^k by d, no product reaching 2^31
RECURSIVE LongDiv(_, _, _)
LongDiv(n, d, k) ==
    IF k = 0 THEN [quot |-> n \div d, rem |-> n % d]
    ELSE LET prev == LongDiv(n, d, k - 1)
         IN  [quot |-> prev.quot * 128 + (prev.rem * 128) \div d,
              rem |-> (prev.rem * 128) % d]

\* the multiple of 2^-23 s nearest to nano nanoseconds, in ticks (no tie is
\* possible: the divisor 5^9 is odd)
TicksOfNanos(nano) ==
    LET q == LongDiv(nano, TickNumerator, 2)
    IN  IF 2 * q.rem > TickNumerator THEN q.quot + 1 ELSE q.quot

\* the double nearest to whole + nano / 1000000000
DoubleSeconds(whole, nano) ==
    IF TicksOfNanos(nano) = TicksPerSecond
    THEN [s |-> whole + 1, ticks |-> 0]
    ELSE [s |-> whole, ticks |-> TicksOfNanos(nano)]

\* a variant that keeps the whole seconds only
convertAppleTimestamp_WholeSeconds(appleTimestamp) ==
    [s |-> appleTimestamp.sec + EpochOffset, ticks |-> 0]

\* appleTimestamp / 1000000000 + 978307200 in doubles
convertAppleTimestamp(appleTimestamp) ==
    DoubleSeconds(appleTimestamp.sec + EpochOffset, appleTimestamp.nano)

\* (seconds - 978307200) * 1000000000 in doubles: both operations are exact
\* here, and the product is sec * 1000000000 + nano + frac / 2^14, which is
\* an integer only when frac = 0
SecondsToArchiveNanos(seconds) ==
    LET a == seconds.ticks \div TickDenominator
        b == seconds.ticks % TickDenominator
        c == TickNumerator \div TickDenominator
        d == TickNumerator % TickDenominator
    IN  [sec |-> seconds.s - EpochOffset,
         nano |-> a * TickNumerator + b * c + (b * d) \div TickDenominator,
         frac |-> (b * d) % TickDenominator]

\* (date.getTime() / 1000 - 978307200) * 1000000000
toArchiveNanos(date) ==
    SecondsToArchiveNanos(
        DoubleSeconds(date.s, date.ms * (NanosPerSecond \div MillisPerSecond)))

\* the SQL expression m.date/1000000000 + 978307200 on an INTEGER column:
\* SQLite divides two integers as integers, so the quotient is raw.sec
SqlCalendarSeconds(raw) == raw.sec + EpochOffset

RawGE(a, b) == a.sec > b.sec \/ (a.sec = b.sec /\ a.nano >= b.nano)
RawLE(a, b) == RawGE(b, a)

\* m.date >= ? and m.date <= ?, an INTEGER column against a REAL parameter
AtOrAfter(raw, bound) ==
    \/ raw.sec > bound.sec
    \/ /\ raw.sec = bound.sec
       /\ raw.nano > bound.nano \/ (raw.nano = bound.nano /\ bound.frac = 0)
AtOrBefore(raw, bound) ==
    raw.sec < bound.sec \/ (raw.sec = bound.sec /\ raw.nano <= bound.nano)

-----------------------------------------------------------------------------
(* RichTextExtractor.  A blob is a sequence of bytes, given as the          *)
(* characters they encode, in which each marker token is one element and    *)
(* InvalidByte is a byte that is no UTF-8.                                   *)

InvalidByte == "0xFF"
ReplacementChar == "U+FFFD"

\* new TextDecoder("utf-8", { fatal: false }).decode(blob)
TextDecode(blob) ==
    [i \in 1..Len(blob) |-> IF blob[i] = InvalidByte THEN ReplacementChar ELSE blob[i]]

NSNumber == "NSNumber"
NSString == "NSString"
NSDictionary == "NSDictionary"

ControlChars == {"\t", "\n", "\r", "\f"}          \* members of [\x00-\x1F\x7F-\x9F]
WhitespaceChars == {" ", "\t", "\n", "\r", "\f"}  \* members of \s

\* number of UTF-16 code units of the string
JsLength(s) ==
    LET RECURSIVE Sum(_)
        Sum(i) == IF i = 0 THEN 0
                  ELSE Sum(i - 1) + (CASE s[i] = NSNumber -> 8
                                       [] s[i] = NSString -> 8
                                       [] s[i] = NSDictionary -> 12
                                       [] OTHER -> 1)
    IN  Sum(Len(s))

Includes(s, tok) == IndexOf(s, tok) # 0

\* s.split(tok)[0]
SplitPart0(s, tok) ==
    IF Includes(s, tok) THEN SubSeq(s, 1, IndexOf(s, tok) - 1) ELSE s

\* s.split(tok)[1], used only when s includes tok
SplitPart1(s, tok) ==
    SplitPart0(SubSeq(s, IndexOf(s, tok) + 1, Len(s)), tok)

RemoveControl(s) == SelectSeq(s, LAMBDA c : c \notin ControlChars)

\* replace(/\s+/g, " ")
RECURSIVE CollapseWhitespace(_)
CollapseWhitespace(s) ==
    IF s = <<>> THEN <<>>
    ELSE IF Head(s) \in WhitespaceChars
         THEN IF Len(s) > 1 /\ s[2] \in WhitespaceChars
              THEN CollapseWhitespace(Tail(s))
              ELSE <<" ">> \o CollapseWhitespace(Tail(s))
         ELSE <<Head(s)>> \o CollapseWhitespace(Tail(s))

RECURSIVE TrimStart(_)
TrimStart(s) ==
    IF s # <<>> /\ Head(s) \in WhitespaceChars THEN TrimStart(Tail(s)) ELSE s

RECURSIVE TrimEnd(_)
TrimEnd(s) ==
    IF s # <<>> /\ s[Len(s)] \in WhitespaceChars
    THEN TrimEnd(SubSeq(s, 1, Len(s) - 1)) ELSE s

Trim(s) == TrimEnd(TrimStart(s))

\* a variant that hands an absent blob back as null
decodeAttributedBody_NullForAbsent(attributedBodyBlob) ==
    IF attributedBodyBlob = Null THEN Null
    ELSE LET decoded == TextDecode(attributedBodyBlob)
             s1 == IF Includes(decoded, NSNumber) THEN SplitPart0(decoded, NSNumber) ELSE decoded
             s2 == IF Includes(s1, NSString) THEN SplitPart1(s1, NSString) ELSE s1
             s3 == IF Includes(s2, NSDictionary) THEN SplitPart0(s2, NSDictionary) ELSE s2
             s4 == IF JsLength(s3) > 18 THEN SubSeq(s3, 6 + 1, Len(s3) - 12) ELSE s3
         IN  Trim(CollapseWhitespace(RemoveControl(s4)))

decodeAttributedBody(attributedBodyBlob) ==
    IF attributedBodyBlob = Null THEN <<>>
    ELSE LET decoded == TextDecode(attributedBodyBlob)
             s1 == IF Includes(decoded, NSNumber) THEN SplitPart0(decoded, NSNumber) ELSE decoded
             s2 == IF Includes(s1, NSString) THEN SplitPart1(s1, NSString) ELSE s1
             s3 == IF Includes(s2, NSDictionary) THEN SplitPart0(s2, NSDictionary) ELSE s2
             \* slice(6, -12) of a string longer than 18
             s4 == IF JsLength(s3) > 18 THEN SubSeq(s3, 6 + 1, Len(s3) - 12) ELSE s3
         IN  Trim(CollapseWhitespace(RemoveControl(s4)))

-----------------------------------------------------------------------------
(* The SQL engine, as far as the queries of the source use it *)

\* ASCII case folding of LIKE, for the letters of the model
UpperToLower == [A |-> "a", B |-> "b"]
Fold(c) == IF c \in DOMAIN UpperToLower THEN UpperToLower[c] ELSE c

RECURSIVE LikeMatch(_, _)
LikeMatch(pattern, text) ==
    IF pattern = <<>> THEN text = <<>>
    ELSE IF Head(pattern) = "%"
         THEN LikeMatch(Tail(pattern), text)
              \/ (text # <<>> /\ LikeMatch(pattern, Tail(text)))
         ELSE /\ text # <<>>
              /\ (Head(pattern) = "_" \/ Fold(Head(pattern)) = Fold(Head(text)))
              /\ LikeMatch(Tail(pattern), Tail(text))

\* value LIKE pattern; NULL LIKE pattern is not true
SqlLike(value, pattern) == value # Null /\ LikeMatch(pattern, value)

\* `%${s}%`
ContainsPattern(s) == <<"%">> \o s \o <<"%">>

\* The orders in which ORDER BY key DESC may deliver the rows: every order in
\* which the key does not increase.  The statement names no second sort key,
\* and SQLite leaves the order of rows with equal keys undefined.
SqlOrderBy(rows, InOrder(_, _)) ==
    {o \in Orderings(rows) : \A k \in 1..(Len(o) - 1) : InOrder(o[k], o[k + 1])}

\* BINARY collation: strings compare by character code; NULL sorts first
CharCode(c) ==
    CASE c = " " -> 32 [] c = "%" -> 37 [] c = "+" -> 43 [] c = "-" -> 45
      [] c = "0" -> 48 [] c = "1" -> 49 [] c = "2" -> 50 [] c = "3" -> 51
      [] c = "4" -> 52 [] c = "5" -> 53 [] c = "6" -> 54 [] c = "7" -> 55
      [] c = "8" -> 56 [] c = "9" -> 57 [] c = "@" -> 64 [] c = "A" -> 65
      [] c = "B" -> 66 [] c = "_" -> 95 [] c = "a" -> 97 [] c = "b" -> 98
      [] c = "c" -> 99 [] OTHER -> 120

RECURSIVE StrLess(_, _)
StrLess(a, b) ==
    IF b = <<>> THEN FALSE
    ELSE IF a = <<>> THEN TRUE
    ELSE IF CharCode(Head(a)) # CharCode(Head(b)) THEN CharCode(Head(a)) < CharCode(Head(b))
    ELSE StrLess(Tail(a), Tail(b))

SqlLess(a, b) == b # Null /\ (a = Null \/ StrLess(a, b))

\* LIMIT limit OFFSET offset
SqlLimitOffset(ordered, limit, offset) == Slice(ordered, offset, offset + limit)

-----------------------------------------------------------------------------
(* The messaging store *)

\* LEFT JOIN handle h ON m.handle_id = h.ROWID: h.id, NULL without a handle row
JoinedHandleId(db, m) ==
    IF m.handle_id \in 1..Len(db.handle) THEN db.handle[m.handle_id].id ELSE Null

-----------------------------------------------------------------------------
(* SearchEngine *)

\* a variant whose text filter looks at the text the row is returned with
WhereClause_DecodedText(db, options, i) ==
    LET m == db.message[i]
        text == IF ~Truthy(m.text) /\ m.attributedBody # Null
                THEN decodeAttributedBody(m.attributedBody)
                ELSE m.text
    IN  /\ Truthy(options.query) => SqlLike(text, ContainsPattern(options.query))
        /\ Truthy(options.handle) => /\ JoinedHandleId(db, m) # Null
                                     /\ JoinedHandleId(db, m) = options.handle
        /\ options.startDate # NoDate => AtOrAfter(m.date, toArchiveNanos(options.startDate))
        /\ options.endDate # NoDate => AtOrBefore(m.date, toArchiveNanos(options.endDate))

\* a variant whose start bound is exclusive
WhereClause_ExclusiveStart(db, options, i) ==
    LET m == db.message[i]
    IN  /\ Truthy(options.query) => SqlLike(m.text, ContainsPattern(options.query))
        /\ Truthy(options.handle) => /\ JoinedHandleId(db, m) # Null
                                     /\ JoinedHandleId(db, m) = options.handle
        /\ options.startDate # NoDate => ~AtOrBefore(m.date, toArchiveNanos(options.startDate))
        /\ options.endDate # NoDate => AtOrBefore(m.date, toArchiveNanos(options.endDate))

\* the WHERE clause searchMessages assembles, on the message with ROWID i
WhereClause(db, options, i) ==
    LET m == db.message[i]
    IN  /\ Truthy(options.query) => SqlLike(m.text, ContainsPattern(options.query))
        /\ Truthy(options.handle) => /\ JoinedHandleId(db, m) # Null
                                     /\ JoinedHandleId(db, m) = options.handle
        /\ options.startDate # NoDate => AtOrAfter(m.date, toArchiveNanos(options.startDate))
        /\ options.endDate # NoDate => AtOrBefore(m.date, toArchiveNanos(options.endDate))

\* ROWIDs the count query counts and the data query selects from
MatchingMessages(db, options) ==
    {i \in 1..Len(db.message) : WhereClause(db, options, i)}

\* one row of the data query
RawMessageRow(db, i) ==
    LET m == db.message[i]
    IN  [guid |-> m.guid,
         text |-> m.text,
         attributedBody |-> m.attributedBody,
         handle_id |-> m.handle_id,
         date |-> SqlCalendarSeconds(m.date),
         handle_id_string |-> JoinedHandleId(db, m)]

\* a variant that decodes only when the text is null, not when it is empty
ProcessRow_NullOnly(row) ==
    [guid |-> row.guid,
     text |-> IF row.text = Null /\ row.attributedBody # Null
              THEN decodeAttributedBody(row.attributedBody)
              ELSE row.text,
     handle_id |-> row.handle_id,
     date |-> row.date,
     handle_id_string |-> row.handle_id_string]

\* const { attributedBody, ...message } = row; decode when text is null/empty
ProcessRow(row) ==
    [guid |-> row.guid,
     text |-> IF ~Truthy(row.text) /\ row.attributedBody # Null
              THEN decodeAttributedBody(row.attributedBody)
              ELSE row.text,
     handle_id |-> row.handle_id,
     date |-> row.date,
     handle_id_string |-> row.handle_id_string]

MapRows(db, rowids) == [k \in 1..Len(rowids) |-> ProcessRow(RawMessageRow(db, rowids[k]))]

\* the orders ORDER BY m.date DESC may deliver the given messages in
MessagesByDateDesc(db, rowids) ==
    SqlOrderBy(rowids, LAMBDA a, b : RawGE(db.message[a].date, db.message[b].date))

\* searchMessages; `ordered` is the order the engine delivers the matching rows in
searchMessages(db, options, ordered) ==
    [data |-> MapRows(db, SqlLimitOffset(ordered, options.limit, options.offset)),
     pagination |-> createPaginationMetadata(
                        Cardinality(MatchingMessages(db, options)),
                        options.limit, options.offset)]

NoFilterOptions(limit, offset) ==
    [query |-> Null, handle |-> Null, startDate |-> NoDate, endDate |-> NoDate,
     limit |-> limit, offset |-> offset]

getRecentMessages(db, limit, offset, ordered) ==
    searchMessages(db, NoFilterOptions(limit, offset), ordered)

\* getChats: ORDER BY c.last_read_message_timestamp DESC
ChatsByLastReadDesc(db) ==
    SqlOrderBy(1..Len(db.chat),
               LAMBDA a, b : db.chat[a].last_read_message_timestamp
                                 >= db.chat[b].last_read_message_timestamp)

getChats(db, limit, offset, ordered) ==
    LET page == SqlLimitOffset(ordered, limit, offset)
    IN  [data |-> [k \in 1..Len(page) |-> db.chat[page[k]]],
         pagination |-> createPaginationMetadata(Len(db.chat), limit, offset)]

\* getHandles: ORDER BY id
HandlesById(db) ==
    SqlOrderBy(1..Len(db.handle),
               LAMBDA a, b : ~SqlLess(db.handle[b].id, db.handle[a].id))

getHandles(db, limit, offset, ordered) ==
    LET page == SqlLimitOffset(ordered, limit, offset)
    IN  [data |-> [k \in 1..Len(page) |-> db.handle[page[k]]],
         pagination |-> createPaginationMetadata(Len(db.handle), limit, offset)]

\* message JOIN chat_message_join JOIN chat WHERE c.guid = ?
\* a variant without the WHERE c.guid = ? condition
MessagesOfChat_AnyChat(db, chatGuid) ==
    {i \in 1..Len(db.message) :
        \E j \in db.chat_message_join :
            /\ j.message_id = i
            /\ j.chat_id \in 1..Len(db.chat)}

MessagesOfChat(db, chatGuid) ==
    {i \in 1..Len(db.message) :
        \E j \in db.chat_message_join :
            /\ j.message_id = i
            /\ j.chat_id \in 1..Len(db.chat)
            /\ db.chat[j.chat_id].guid = chatGuid}

getMessagesFromChat(db, chatGuid, limit, offset, ordered) ==
    [data |-> MapRows(db, SqlLimitOffset(ordered, limit, offset)),
     pagination |-> createPaginationMetadata(
                        Cardinality(MessagesOfChat(db, chatGuid)), limit, offset)]

-----------------------------------------------------------------------------
(* PhoneNormalizer *)

Digits == {"0", "1", "2", "3", "4", "5", "6", "7", "8", "9"}

StartsWith(s, c) == s # <<>> /\ Head(s) = c

\* a variant that keeps only the digits
normalizePhoneNumber_DigitsOnly(phone) ==
    LET cleaned == SelectSeq(phone, LAMBDA c : c \in Digits)
    IN  IF StartsWith(cleaned, "+") THEN cleaned
        ELSE IF Len(cleaned) = 10 THEN <<"+", "1">> \o cleaned
        ELSE IF Len(cleaned) = 11 /\ StartsWith(cleaned, "1") THEN <<"+">> \o cleaned
        ELSE IF cleaned # <<>> THEN cleaned ELSE phone

normalizePhoneNumber(phone) ==
    LET cleaned == SelectSeq(phone, LAMBDA c : c \in Digits \cup {"+"})
    IN  IF StartsWith(cleaned, "+") THEN cleaned
        ELSE IF Len(cleaned) = 10 THEN <<"+", "1">> \o cleaned
        ELSE IF Len(cleaned) = 11 /\ StartsWith(cleaned, "1") THEN <<"+">> \o cleaned
        ELSE IF cleaned # <<>> THEN cleaned ELSE phone

-----------------------------------------------------------------------------
(* ContactResolver.  A contact store is a sequence of records, Z_PK being   *)
(* the position; a record carries its phone numbers and email addresses in  *)
(* ZORDERINGINDEX order.                                                    *)

Unknown == <<"U", "n", "k", "n", "o", "w", "n">>
UnknownContact == Unknown \o <<" ", "C", "o", "n", "t", "a", "c", "t">>
Undefined == <<"u", "n", "d", "e", "f", "i", "n", "e", "d">>

\* the limit searchContactsByName passes to searchContactsInAddressBook: 1000 in
\* the source, scaled down here so that stores of three contacts reach it
ContactScanLimit == 2

AnyNamePopulated(r) ==
    r.ZFIRSTNAME # Null \/ r.ZLASTNAME # Null \/ r.ZORGANIZATION # Null

\* a variant whose first-name-only query leaves the nickname out
ContactWhere_NoNickname(r, firstName, lastName) ==
    IF firstName = <<>> /\ ~Truthy(lastName)
    THEN AnyNamePopulated(r)
    ELSE IF Truthy(lastName)
    THEN /\ SqlLike(r.ZFIRSTNAME, ContainsPattern(firstName))
         /\ SqlLike(r.ZLASTNAME, ContainsPattern(lastName))
         /\ AnyNamePopulated(r)
    ELSE /\ \/ SqlLike(r.ZFIRSTNAME, ContainsPattern(firstName))
            \/ SqlLike(r.ZLASTNAME, ContainsPattern(firstName))
            \/ SqlLike(r.ZORGANIZATION, ContainsPattern(firstName))
         /\ AnyNamePopulated(r)

\* the WHERE clause of the per-store match query, on one record
ContactWhere(r, firstName, lastName) ==
    IF firstName = <<>> /\ ~Truthy(lastName)
    THEN AnyNamePopulated(r)
    ELSE IF Truthy(lastName)
    THEN /\ SqlLike(r.ZFIRSTNAME, ContainsPattern(firstName))
         /\ SqlLike(r.ZLASTNAME, ContainsPattern(lastName))
         /\ AnyNamePopulated(r)
    ELSE /\ \/ SqlLike(r.ZFIRSTNAME, ContainsPattern(firstName))
            \/ SqlLike(r.ZLASTNAME, ContainsPattern(firstName))
            \/ SqlLike(r.ZORGANIZATION, ContainsPattern(firstName))
            \/ SqlLike(r.ZNICKNAME, ContainsPattern(firstName))
         /\ AnyNamePopulated(r)

MatchingContacts(store, firstName, lastName) ==
    {i \in 1..Len(store) : ContactWhere(store[i], firstName, lastName)}

\* ORDER BY r.ZLASTNAME, r.ZFIRSTNAME
ContactsByName(store, ids) ==
    SqlOrderBy(ids,
               LAMBDA a, b :
                   \/ SqlLess(store[a].ZLASTNAME, store[b].ZLASTNAME)
                   \/ /\ store[a].ZLASTNAME = store[b].ZLASTNAME
                      /\ ~SqlLess(store[b].ZFIRSTNAME, store[a].ZFIRSTNAME))

\* the orders in which the stores may deliver their matching rows: one per store
RECURSIVE ContactScans(_, _, _)
ContactScans(dbs, firstName, lastName) ==
    IF dbs = <<>> THEN {<<>>}
    ELSE {<<o>> \o rest :
            o \in ContactsByName(Head(dbs), MatchingContacts(Head(dbs), firstName, lastName)),
            rest \in ContactScans(Tail(dbs), firstName, lastName)}

\* a variant that prefers the organization to the last name
FullName_OrganizationFirst(firstName, lastName, organization) ==
    IF Truthy(firstName) /\ Truthy(lastName) THEN firstName \o <<" ">> \o lastName
    ELSE IF Truthy(firstName) THEN firstName
    ELSE IF Truthy(organization) THEN organization
    ELSE IF Truthy(lastName) THEN lastName
    ELSE Unknown

\* nameParts.join(" ") || "Unknown"
FullName(firstName, lastName, organization) ==
    IF Truthy(firstName) /\ Truthy(lastName) THEN firstName \o <<" ">> \o lastName
    ELSE IF Truthy(firstName) THEN firstName
    ELSE IF Truthy(lastName) THEN lastName
    ELSE IF Truthy(organization) THEN organization
    ELSE Unknown

\* the Contact built from the row with Z_PK id of a store
MakeContact(store, id) ==
    LET r == store[id]
    IN  [id |-> id,
         firstName |-> r.ZFIRSTNAME,
         lastName |-> r.ZLASTNAME,
         organization |-> r.ZORGANIZATION,
         fullName |-> FullName(r.ZFIRSTNAME, r.ZLASTNAME, r.ZORGANIZATION),
         phoneNumbers |-> SelectSeq(r.phones, LAMBDA ph : ph # Null),
         emailAddresses |-> SelectSeq(r.emails, LAMBDA e : e # Null)]

\* `${x}` of a string | undefined
TemplateString(x) == IF x = Null THEN Undefined ELSE x

\* `${c.firstName}-${c.lastName}-${c.organization}`
DedupKey(c) ==
    TemplateString(c.firstName) \o <<"-">> \o TemplateString(c.lastName)
        \o <<"-">> \o TemplateString(c.organization)

\* a variant in which a key keeps the value of its first entry
UniqueByKey_FirstWins(contacts) ==
    SelectSeq(contacts,
              LAMBDA c : \A j \in 1..Len(contacts) :
                  (DedupKey(contacts[j]) = DedupKey(c) /\ contacts[j] # c) =>
                      \E i \in 1..(j - 1) : contacts[i] = c)

\* Array.from(new Map(contacts.map((c) => [key, c])).values()): a key keeps the
\* position of its first entry and the value of its last
UniqueByKey(contacts) ==
    LET firsts == SelectSeq([k \in 1..Len(contacts) |-> k],
                            LAMBDA k : \A j \in 1..(k - 1) :
                                           DedupKey(contacts[j]) # DedupKey(contacts[k]))
        LastWith(key) == CHOOSE k \in 1..Len(contacts) :
                             /\ DedupKey(contacts[k]) = key
                             /\ \A j \in (k + 1)..Len(contacts) : DedupKey(contacts[j]) # key
    IN  [n \in 1..Len(firsts) |-> contacts[LastWith(DedupKey(contacts[firsts[n]]))]]

\* the contacts pushed while scanning the stores in order
RECURSIVE ScannedContacts(_, _)
ScannedContacts(dbs, scan) ==
    IF dbs = <<>> THEN <<>>
    ELSE [k \in 1..Len(Head(scan)) |-> MakeContact(Head(dbs), Head(scan)[k])]
             \o ScannedContacts(Tail(dbs), Tail(scan))

\* a variant that cuts the rows of each store before they are pushed
searchContactsInAddressBook_CapPerStore(dbs, scan, limit, offset) ==
    UniqueByKey(ScannedContacts(dbs, [d \in 1..Len(scan) |->
                                        Slice(scan[d], offset, offset + limit)]))

searchContactsInAddressBook(dbs, scan, limit, offset) ==
    Slice(UniqueByKey(ScannedContacts(dbs, scan)), offset, offset + limit)

\* a variant that lists the emails before the phones
ContactInfosOf_EmailsFirst(contact) ==
    LET phones == [k \in 1..Len(contact.phoneNumbers) |->
                      [name |-> contact.fullName,
                       phone |-> normalizePhoneNumber(contact.phoneNumbers[k])]]
        emails == [k \in 1..Len(contact.emailAddresses) |->
                      [name |-> contact.fullName, phone |-> contact.emailAddresses[k]]]
    IN  SelectSeq(emails, LAMBDA e : e.phone # <<>>) \o SelectSeq(phones, LAMBDA e : e.phone # <<>>)

\* the ContactInfo entries of one contact: phones, then emails
ContactInfosOf(contact) ==
    LET phones == [k \in 1..Len(contact.phoneNumbers) |->
                      [name |-> contact.fullName,
                       phone |-> normalizePhoneNumber(contact.phoneNumbers[k])]]
        emails == [k \in 1..Len(contact.emailAddresses) |->
                      [name |-> contact.fullName, phone |-> contact.emailAddresses[k]]]
    IN  SelectSeq(phones, LAMBDA e : e.phone # <<>>) \o SelectSeq(emails, LAMBDA e : e.phone # <<>>)

RECURSIVE FlattenContacts(_)
FlattenContacts(contacts) ==
    IF contacts = <<>> THEN <<>>
    ELSE ContactInfosOf(Head(contacts)) \o FlattenContacts(Tail(contacts))

\* the local allContactInfos of searchContactsByName
AllContactInfos(dbs, scan) ==
    FlattenContacts(searchContactsInAddressBook(dbs, scan, ContactScanLimit, 0))

\* a variant that slices the page with slice(offset, limit)
searchContactsByName_SliceToLimit(dbs, scan, limit, offset) ==
    LET allContactInfos == AllContactInfos(dbs, scan)
        total == Len(allContactInfos)
    IN  [data |-> Slice(allContactInfos, offset, limit),
         pagination |-> [total |-> total,
                         limit |-> limit,
                         offset |-> offset,
                         hasMore |-> offset + limit < total,
                         page |-> (offset \div limit) + 1,
                         totalPages |-> MathCeilDiv(total, limit)]]

\* searchContactsByName; `scan` is the order each store delivers its matching rows in
searchContactsByName(dbs, scan, limit, offset) ==
    LET allContactInfos == AllContactInfos(dbs, scan)
        total == Len(allContactInfos)
    IN  [data |-> Slice(allContactInfos, offset, offset + limit),
         pagination |-> [total |-> total,
                         limit |-> limit,
                         offset |-> offset,
                         hasMore |-> offset + limit < total,
                         page |-> (offset \div limit) + 1,
                         totalPages |-> MathCeilDiv(total, limit)]]

-----------------------------------------------------------------------------
(* Reverse lookup (index.ts) *)

\* the CASE expression of the lookup queries
SqlDisplayName(r) ==
    IF r.ZFIRSTNAME # Null /\ r.ZLASTNAME # Null THEN r.ZFIRSTNAME \o <<" ">> \o r.ZLASTNAME
    ELSE IF r.ZFIRSTNAME # Null THEN r.ZFIRSTNAME
    ELSE IF r.ZLASTNAME # Null THEN r.ZLASTNAME
    ELSE IF r.ZORGANIZATION # Null THEN r.ZORGANIZATION
    ELSE UnknownContact

LookupRow(r) ==
    [firstName |-> r.ZFIRSTNAME, lastName |-> r.ZLASTNAME,
     organization |-> r.ZORGANIZATION, displayName |-> SqlDisplayName(r)]

\* rows of ZABCDRECORD JOIN ZABCDPHONENUMBER WHERE p.ZFULLNUMBER = handle
PhoneRows(store, handle) ==
    {LookupRow(store[i]) : i \in {j \in 1..Len(store) :
                                     \E k \in 1..Len(store[j].phones) : store[j].phones[k] = handle}}

\* rows of ZABCDRECORD JOIN ZABCDEMAILADDRESS WHERE e.ZADDRESS = handle
EmailRows(store, handle) ==
    {LookupRow(store[i]) : i \in {j \in 1..Len(store) :
                                     \E k \in 1..Len(store[j].emails) : store[j].emails[k] = handle}}

\* x || null
OrNull(x) == IF Truthy(x) THEN x ELSE Null

FoundResult(handle, row) ==
    [data |-> <<[handle |-> handle,
                 firstName |-> OrNull(row.firstName),
                 lastName |-> OrNull(row.lastName),
                 organization |-> OrNull(row.organization),
                 displayName |-> row.displayName,
                 found |-> TRUE]>>,
     pagination |-> [total |-> 1, limit |-> 1, offset |-> 0,
                     hasMore |-> FALSE, page |-> 1, totalPages |-> 1]]

NotFoundResult(handle) ==
    [data |-> <<[handle |-> handle,
                 firstName |-> Null,
                 lastName |-> Null,
                 organization |-> Null,
                 displayName |-> Null,
                 found |-> FALSE]>>,
     pagination |-> [total |-> 0, limit |-> 1, offset |-> 0,
                     hasMore |-> FALSE, page |-> 1, totalPages |-> 0]]

\* a variant that falls back to the email query whatever the handle looks like
StoreLookupRows_AlwaysEmail(store, handle) ==
    LET phoneRows == PhoneRows(store, handle)
    IN  IF phoneRows = {} THEN EmailRows(store, handle) ELSE phoneRows

\* The rows one store's lookup can yield: the phone query's, else (for a handle
\* with "@") the email query's.  Each query ends in LIMIT 1 with no ORDER BY,
\* so it yields any one of its rows.
StoreLookupRows(store, handle) ==
    LET phoneRows == PhoneRows(store, handle)
    IN  IF phoneRows = {} /\ Includes(handle, "@") THEN EmailRows(store, handle) ELSE phoneRows

\* the results lookupContactByHandle can return, scanning the stores from the d-th
RECURSIVE LookupFrom(_, _, _)
LookupFrom(dbs, handle, d) ==
    IF d > Len(dbs) THEN {NotFoundResult(handle)}
    ELSE IF StoreLookupRows(dbs[d], handle) # {}
         THEN {FoundResult(handle, row) : row \in StoreLookupRows(dbs[d], handle)}
         ELSE LookupFrom(dbs, handle, d + 1)

lookupContactByHandle(dbs, handle) == LookupFrom(dbs, handle, 1)

-----------------------------------------------------------------------------
(* The stores the model starts from *)

HandleTable ==
    <<[id |-> <<"+", "1">>, service |-> "iMessage"],
      [id |-> <<"a", "@", "b">>, service |-> "iMessage"],
      [id |-> <<"+", "1">>, service |-> "SMS"]>>

ChatTable ==
    <<[guid |-> <<"c", "1">>, last_read_message_timestamp |-> 5],
      [guid |-> <<"c", "2">>, last_read_message_timestamp |-> 5],
      [guid |-> <<"c", "3">>, last_read_message_timestamp |-> 7]>>

\* a blob with a payload between the string marker and the dictionary marker
PayloadBlob == <<"x", NSString, "h", "i", NSDictionary, "z">>
\* a blob whose text holds a query of the model
QueryBlob == <<NSString, "a", NSDictionary>>

\* message rows: text, blob, sender, raw date, and the chats that link to the row
MessageRows ==
    {[text |-> <<"a", "b">>, attributedBody |-> Null, handle_id |-> 1,
      date |-> [sec |-> 1, nano |-> 0], chats |-> {1}],
     [text |-> Null, attributedBody |-> QueryBlob, handle_id |-> 0,
      date |-> [sec |-> 1, nano |-> 0], chats |-> {1}],
     [text |-> <<>>, attributedBody |-> PayloadBlob, handle_id |-> 2,
      date |-> [sec |-> 1, nano |-> 500000000], chats |-> {2}],
     [text |-> <<"A">>, attributedBody |-> PayloadBlob, handle_id |-> 1,
      date |-> [sec |-> 2, nano |-> 0], chats |-> {1, 2}],
     [text |-> Null, attributedBody |-> <<NSString>>, handle_id |-> 3,
      date |-> [sec |-> 2, nano |-> 0], chats |-> {2}],
     [text |-> Null, attributedBody |-> Null, handle_id |-> 1,
      date |-> [sec |-> 0, nano |-> 0], chats |-> {}]}

MakeMessagesDb(rows) ==
    [message |-> [i \in 1..Len(rows) |->
                     [guid |-> i, text |-> rows[i].text,
                      attributedBody |-> rows[i].attributedBody,
                      handle_id |-> rows[i].handle_id, date |-> rows[i].date]],
     handle |-> HandleTable,
     chat |-> ChatTable,
     chat_message_join |-> UNION {{[chat_id |-> c, message_id |-> i] : c \in rows[i].chats} :
                                     i \in 1..Len(rows)}]

MessagesDbs == {MakeMessagesDb(rows) : rows \in SeqsUpTo(MessageRows, MaxMessages)}

\* contact records: names, nickname, phone numbers and email addresses
LongPhone == <<"5", "5", "5", "-", "1", "2", "3", "-", "4", "5", "6", "7">>
ShortPhone == <<"+", "1">>
Email == <<"a", "@", "b">>

ContactRows ==
    <<[ZFIRSTNAME |-> <<"a">>, ZLASTNAME |-> <<"b">>, ZORGANIZATION |-> Null,
       ZNICKNAME |-> Null, phones |-> <<LongPhone>>, emails |-> <<Email>>],
      [ZFIRSTNAME |-> <<"a">>, ZLASTNAME |-> <<"b">>, ZORGANIZATION |-> Null,
       ZNICKNAME |-> Null, phones |-> <<ShortPhone, <<"7">>>>, emails |-> <<>>],
      [ZFIRSTNAME |-> Null, ZLASTNAME |-> Null, ZORGANIZATION |-> <<"a">>,
       ZNICKNAME |-> Null, phones |-> <<<<>>>>, emails |-> <<Email, <<"9">>>>],
      [ZFIRSTNAME |-> <<"B">>, ZLASTNAME |-> Null, ZORGANIZATION |-> Null,
       ZNICKNAME |-> <<"a">>, phones |-> <<ShortPhone>>, emails |-> <<Null, <<"b", "@">>>>]>>

\* a store holds up to MaxContacts of the records, each at most once; the order
\* of its rows is the table's, the order of a query's rows is the query's
ContactStores ==
    {[k \in 1..Len(ix) |-> ContactRows[ix[k]]] :
        ix \in {jx \in SeqsUpTo(DOMAIN ContactRows, MaxContacts) :
                   \A k \in 1..(Len(jx) - 1) : jx[k] < jx[k + 1]}}

\* one or two stores holding at most MaxContacts records together
ContactsDbLists ==
    {<<a>> : a \in ContactStores}
        \cup {p \in ContactStores \X ContactStores : Len(p[1]) + Len(p[2]) <= MaxContacts}

-----------------------------------------------------------------------------
(* Arguments of the tool calls *)

Limits == 1..MaxLimit
Offsets == 0..MaxOffset

Queries == {Null, <<>>, <<"a">>, <<"_", "b">>}
HandleFilters == {Null, <<"+", "1">>}
DateBounds == {NoDate, [s |-> EpochOffset + 1, ms |-> 500]}

Filters ==
    {[query |-> q, handle |-> h, startDate |-> sd, endDate |-> ed] :
        q \in Queries, h \in HandleFilters, sd \in DateBounds, ed \in DateBounds}

WithPage(filter, limit, offset) ==
    [query |-> filter.query, handle |-> filter.handle,
     startDate |-> filter.startDate, endDate |-> filter.endDate,
     limit |-> limit, offset |-> offset]

ChatGuids == {<<"c", "1">>, <<"c", "2">>, <<"c", "9">>}

FirstNames == {<<>>, <<"a">>, <<"b">>, <<"_">>}
LastNames == {Null, <<"b">>}
LookupHandles == {ShortPhone, LongPhone, Email, <<"b", "@">>, <<"9">>, <<"8", "@">>}

NoResp == [op |-> "none"]
NoPager == [results |-> <<>>]

Last(s) == s[Len(s)]

-----------------------------------------------------------------------------
(* Failing stores: a query on a store of `faults` raises an exception *)

NoFaults == [messages |-> FALSE, contacts |-> {}]

\* the message of the exception a failing store's query raises
QueryError == <<"disk I/O error">>

\* the text each tool handler's catch puts before the error message
ErrorPrefix ==
    [search_messages |-> <<"Error searching messages: ">>,
     get_recent_messages |-> <<"Error getting recent messages: ">>,
     get_chats |-> <<"Error getting chats: ">>,
     get_handles |-> <<"Error getting handles: ">>,
     get_messages_from_chat |-> <<"Error getting messages from chat: ">>,
     search_contacts |-> <<"Error searching contacts: ">>,
     lookup_contact_by_handle |-> <<"Error looking up contact: ">>]

\* a variant of the catch that returns the tool's prefix alone
ErrorText_PrefixOnly(op, message) == ErrorPrefix[op]

\* the catch of a tool handler: the text it returns for an exception
ErrorText(op, message) == ErrorPrefix[op] \o message

ErrorResponse(op, args, message) ==
    [op |-> op, args |-> args, error |-> ErrorText(op, message)]

\* a variant with the loop inside one try/catch: the first exception ends the scan
ScannableStores_AbortScan(dbs, failing) ==
    [d \in 1..Len(dbs) |-> IF \E f \in failing : f <= d THEN <<>> ELSE dbs[d]]

\* the try/catch around one store's scan in searchContactsInAddressBook: a store
\* whose match query raises is logged and no contact of it is pushed
ScannableStores(dbs, failing) ==
    [d \in 1..Len(dbs) |-> IF d \in failing THEN <<>> ELSE dbs[d]]

\* lookupContactByHandle queries the stores in order with no try/catch: the
\* exception of a failing store reached before any hit leaves the function
LookupRaises(dbs, failing, handle) ==
    \E d \in failing :
        \A e \in 1..(d - 1) : e \notin failing /\ StoreLookupRows(dbs[e], handle) = {}

-----------------------------------------------------------------------------
(* The server: main's start-up probe, then tool calls, one at a time *)

\* new Database(path, { readonly: true }): a new connection at each call, here
\* with the function that called for it
openMessagesDatabase(by) ==
    <<[by |-> by, kind |-> "messages", index |-> 0, open |-> TRUE]>>

\* one new connection for each contact store found
openContactsDatabases(by, dbs) ==
    [d \in 1..Len(dbs) |-> [by |-> by, kind |-> "contacts", index |-> d, open |-> TRUE]]

\* the connections createServer opens and the tool handlers close over
createServer(dbs) ==
    openMessagesDatabase("createServer") \o openContactsDatabases("createServer", dbs)

\* the process after createServer, before main's probe, on stores that answer
Init ==
    /\ \/ messagesDb \in MessagesDbs /\ contactsDbs = <<>>
       \/ messagesDb = MakeMessagesDb(<<>>) /\ contactsDbs \in ContactsDbLists
    /\ pc = "start"
    /\ resp = NoResp
    /\ pager = NoPager
    /\ faults = NoFaults
    /\ conns = createServer(contactsDbs)

\* the close() calls of main: each is the last statement of its try block and
\* is skipped when a query before it raised
CloseUnlessRaised(opened, raised) ==
    [n \in 1..Len(opened) |-> [opened[n] EXCEPT !.open = raised]]

\* main: getHandles on the messaging store, then searchContactsByName and two
\* lookupContactByHandle calls on the contact stores, all only logged; each
\* probe works on connections of its own
StartupProbe ==
    /\ pc = "start"
    /\ LET stores == ScannableStores(contactsDbs, faults.contacts)
           test == <<"t", "e", "s", "t">>
       IN  \E ordered \in HandlesById(messagesDb),
              scan \in ContactScans(stores, test, Null),
              phone \in lookupContactByHandle(contactsDbs, test) :
             /\ resp' = [op |-> "main",
                         handles |-> Len(getHandles(messagesDb, 100, 0, ordered).data),
                         contacts |-> Len(searchContactsByName(stores, scan, 50, 0).data),
                         lookups |-> Len(phone.data),
                         failed |-> {t \in {"messages"} : faults.messages}
                                      \cup {t \in {"contacts"} :
                                                LookupRaises(contactsDbs, faults.contacts, test)}]
             /\ conns' = conns
                    \o CloseUnlessRaised(openMessagesDatabase("main"), faults.messages)
                    \o CloseUnlessRaised(openContactsDatabases("main", contactsDbs),
                                         LookupRaises(contactsDbs, faults.contacts, test))
    /\ pc' = "responded"
    /\ UNCHANGED <<messagesDb, contactsDbs, pager, faults>>

\* a variant that stores the decoded text of the returned rows back in the store
SearchMessagesTool_WriteBack ==
    /\ pc = "idle"
    /\ \E filter \in Filters, limit \in Limits, offset \in Offsets :
         LET options == WithPage(filter, limit, offset)
         IN  \E ordered \in MessagesByDateDesc(messagesDb, MatchingMessages(messagesDb, options)) :
                LET result == searchMessages(messagesDb, options, ordered)
                    decoded == [i \in 1..Len(messagesDb.message) |->
                                   IF \E k \in 1..Len(result.data) : result.data[k].guid = i
                                   THEN [messagesDb.message[i] EXCEPT
                                            !.text = ProcessRow(RawMessageRow(messagesDb, i)).text]
                                   ELSE messagesDb.message[i]]
                IN  /\ resp' = [op |-> "search_messages", args |-> options, result |-> result]
                    /\ messagesDb' = [messagesDb EXCEPT !.message = decoded]
    /\ pc' = "responded"
    /\ UNCHANGED <<contactsDbs, pager, faults, conns>>

SearchMessagesTool ==
    /\ pc = "idle"
    /\ \E filter \in Filters, limit \in Limits, offset \in Offsets :
         LET options == WithPage(filter, limit, offset)
         IN  IF faults.messages
             THEN resp' = ErrorResponse("search_messages", options, QueryError)
             ELSE \E ordered \in MessagesByDateDesc(messagesDb, MatchingMessages(messagesDb, options)) :
                    resp' = [op |-> "search_messages", args |-> options,
                             result |-> searchMessages(messagesDb, options, ordered)]
    /\ pc' = "responded"
    /\ UNCHANGED <<messagesDb, contactsDbs, pager, faults, conns>>

GetRecentMessagesTool ==
    /\ pc = "idle"
    /\ \E limit \in Limits, offset \in Offsets :
         IF faults.messages
         THEN resp' = ErrorResponse("get_recent_messages", NoFilterOptions(limit, offset),
                                    QueryError)
         ELSE \E ordered \in MessagesByDateDesc(messagesDb, 1..Len(messagesDb.message)) :
                resp' = [op |-> "get_recent_messages",
                         args |-> NoFilterOptions(limit, offset),
                         result |-> getRecentMessages(messagesDb, limit, offset, ordered)]
    /\ pc' = "responded"
    /\ UNCHANGED <<messagesDb, contactsDbs, pager, faults, conns>>

GetChatsTool ==
    /\ pc = "idle"
    /\ \E limit \in Limits, offset \in Offsets, ordered \in ChatsByLastReadDesc(messagesDb) :
         IF faults.messages
         THEN resp' = ErrorResponse("get_chats", [limit |-> limit, offset |-> offset],
                                    QueryError)
         ELSE resp' = [op |-> "get_chats", args |-> [limit |-> limit, offset |-> offset],
                       result |-> getChats(messagesDb, limit, offset, ordered)]
    /\ pc' = "responded"
    /\ UNCHANGED <<messagesDb, contactsDbs, pager, faults, conns>>

GetHandlesTool ==
    /\ pc = "idle"
    /\ \E limit \in Limits, offset \in Offsets, ordered \in HandlesById(messagesDb) :
         IF faults.messages
         THEN resp' = ErrorResponse("get_handles", [limit |-> limit, offset |-> offset],
                                    QueryError)
         ELSE resp' = [op |-> "get_handles", args |-> [limit |-> limit, offset |-> offset],
                       result |-> getHandles(messagesDb, limit, offset, ordered)]
    /\ pc' = "responded"
    /\ UNCHANGED <<messagesDb, contactsDbs, pager, faults, conns>>

GetMessagesFromChatTool ==
    /\ pc = "idle"
    /\ \E chatGuid \in ChatGuids, limit \in Limits, offset \in Offsets :
         LET args == [chatGuid |-> chatGuid, limit |-> limit, offset |-> offset]
         IN  IF faults.messages
             THEN resp' = ErrorResponse("get_messages_from_chat", args, QueryError)
             ELSE \E ordered \in MessagesByDateDesc(messagesDb,
                                                   MessagesOfChat(messagesDb, chatGuid)) :
                    resp' = [op |-> "get_messages_from_chat", args |-> args,
                             result |-> getMessagesFromChat(messagesDb, chatGuid, limit,
                                                            offset, ordered)]
    /\ pc' = "responded"
    /\ UNCHANGED <<messagesDb, contactsDbs, pager, faults, conns>>

SearchContactsTool ==
    /\ pc = "idle"
    /\ \E firstName \in FirstNames, lastName \in LastNames, limit \in Limits, offset \in Offsets :
         LET stores == ScannableStores(contactsDbs, faults.contacts)
         IN  \E scan \in ContactScans(stores, firstName, lastName) :
                resp' = [op |-> "search_contacts",
                         args |-> [firstName |-> firstName, lastName |-> lastName,
                                   limit |-> limit, offset |-> offset],
                         scan |-> scan,
                         allContactInfos |-> AllContactInfos(stores, scan),
                         result |-> searchContactsByName(stores, scan, limit, offset)]
    /\ pc' = "responded"
    /\ UNCHANGED <<messagesDb, contactsDbs, pager, faults, conns>>

LookupContactByHandleTool ==
    /\ pc = "idle"
    /\ \E handle \in LookupHandles :
         IF LookupRaises(contactsDbs, faults.contacts, handle)
         THEN resp' = ErrorResponse("lookup_contact_by_handle", [handle |-> handle],
                                    QueryError)
         ELSE \E result \in lookupContactByHandle(contactsDbs, handle) :
                resp' = [op |-> "lookup_contact_by_handle", args |-> [handle |-> handle],
                         result |-> result]
    /\ pc' = "responded"
    /\ UNCHANGED <<messagesDb, contactsDbs, pager, faults, conns>>

\* the handler returns; the response has been serialised to the caller
Return ==
    /\ pc = "responded"
    /\ pc' = "idle"
    /\ resp' = NoResp
    /\ UNCHANGED <<messagesDb, contactsDbs, pager, faults, conns>>

\* the process ends (the transport closes or the process is killed): main
\* registers nothing that would run then
Shutdown ==
    /\ pc = "idle"
    /\ pc' = "stopped"
    /\ UNCHANGED <<messagesDb, contactsDbs, resp, pager, faults, conns>>

\* A caller that follows the pagination note: offset 0 first, then offset + limit
\* for as long as the previous response has hasMore = true.
PagerStart ==
    /\ pc = "idle"
    /\ ~faults.messages
    /\ \E filter \in Filters, limit \in Limits :
         LET options == WithPage(filter, limit, 0)
         IN  \E ordered \in MessagesByDateDesc(messagesDb, MatchingMessages(messagesDb, options)) :
                pager' = [options |-> options,
                          results |-> <<searchMessages(messagesDb, options, ordered)>>]
    /\ pc' = "paging"
    /\ UNCHANGED <<messagesDb, contactsDbs, resp, faults, conns>>

PagerNext ==
    /\ pc = "paging"
    /\ Last(pager.results).pagination.hasMore
    /\ LET prev == Last(pager.results).pagination
           options == WithPage(pager.options, prev.limit, prev.offset + prev.limit)
       IN  \E ordered \in MessagesByDateDesc(messagesDb, MatchingMessages(messagesDb, options)) :
              pager' = [options |-> pager.options,
                        results |-> Append(pager.results,
                                           searchMessages(messagesDb, options, ordered))]
    /\ UNCHANGED <<messagesDb, contactsDbs, pc, resp, faults, conns>>

PagerStop ==
    /\ pc = "paging"
    /\ ~Last(pager.results).pagination.hasMore
    /\ pc' = "idle"
    /\ pager' = NoPager
    /\ UNCHANGED <<messagesDb, contactsDbs, resp, faults, conns>>

Next ==
    \/ StartupProbe
    \/ SearchMessagesTool
    \/ GetRecentMessagesTool
    \/ GetChatsTool
    \/ GetHandlesTool
    \/ GetMessagesFromChatTool
    \/ SearchContactsTool
    \/ LookupContactByHandleTool
    \/ Return
    \/ Shutdown
    \/ PagerStart
    \/ PagerNext
    \/ PagerStop

Spec == Init /\ [][Next]_vars

\* the same server on stores some of which raise when queried
\* (either the messaging store, or any of two contact stores that hold fewer
\* than MaxContacts records together, the first of them at most one)
InitFaults ==
    /\ \/ /\ messagesDb = (CHOOSE db \in MessagesDbs : Len(db.message) = MaxMessages)
          /\ contactsDbs = <<>>
          /\ faults \in [messages : BOOLEAN, contacts : {{}}]
       \/ /\ messagesDb = MakeMessagesDb(<<>>)
          /\ contactsDbs \in {p \in ContactsDbLists :
                                 /\ Len(p) = 2
                                 /\ Len(p[1]) <= 1
                                 /\ Len(p[1]) + Len(p[2]) < MaxContacts}
          /\ faults \in [messages : {FALSE}, contacts : SUBSET (1..Len(contactsDbs))]
    /\ pc = "start"
    /\ resp = NoResp
    /\ pager = NoPager
    /\ conns = createServer(contactsDbs)

SpecFaults == InitFaults /\ [][Next]_vars

\* the same server on one contact store holding one record, the record having
\* each name column absent, empty or filled
NameRows ==
    {[ZFIRSTNAME |-> f, ZLASTNAME |-> l, ZORGANIZATION |-> o, ZNICKNAME |-> n,
      phones |-> <<ShortPhone>>, emails |-> <<Email>>] :
        f \in {Null, <<>>, <<"a">>, <<"B">>}, l \in {Null, <<"b">>},
        o \in {Null, <<"a">>}, n \in {Null, <<"a">>}}

InitNames ==
    /\ messagesDb = (CHOOSE db \in MessagesDbs : Len(db.message) = MaxMessages)
    /\ contactsDbs \in {<<<<r>>>> : r \in NameRows}
    /\ pc = "start"
    /\ resp = NoResp
    /\ pager = NoPager
    /\ faults = NoFaults
    /\ conns = createServer(contactsDbs)

SpecNames == InitNames /\ [][Next]_vars

\* the same server on two contact records, in one store or in two, whose names
\* hold the separator of the dedup key or the text `undefined`
DedupRows ==
    {[ZFIRSTNAME |-> f, ZLASTNAME |-> l, ZORGANIZATION |-> Null, ZNICKNAME |-> Null,
      phones |-> <<ShortPhone>>, emails |-> <<Email>>] :
        f \in {Null, <<"a">>, <<"a", "-", "a">>, Undefined},
        l \in {<<"a">>, <<"a", "-", "a">>}}

InitDedup ==
    /\ messagesDb = (CHOOSE db \in MessagesDbs : Len(db.message) = MaxMessages)
    /\ contactsDbs \in {<<<<r, q>>>> : r, q \in DedupRows}
                          \cup {<<<<r>>, <<q>>>> : r, q \in DedupRows}
    /\ pc = "start"
    /\ resp = NoResp
    /\ pager = NoPager
    /\ faults = NoFaults
    /\ conns = createServer(contactsDbs)

SpecDedup == InitDedup /\ [][Next]_vars

\* A caller that uses lookup_contact_by_handle as the reverse of
\* search_contacts: it looks up a handle the search has just returned.
LookupReturnedHandle ==
    /\ pc = "responded"
    /\ resp.op = "search_contacts"
    /\ "result" \in DOMAIN resp
    /\ \E n \in 1..Len(resp.result.data) :
         LET entry == resp.result.data[n]
         IN  IF LookupRaises(contactsDbs, faults.contacts, entry.phone)
             THEN resp' = ErrorResponse("lookup_contact_by_handle",
                                        [handle |-> entry.phone], QueryError)
             ELSE \E result \in lookupContactByHandle(contactsDbs, entry.phone) :
                    resp' = [op |-> "lookup_contact_by_handle",
                             args |-> [handle |-> entry.phone],
                             result |-> result,
                             entry |-> entry]
    /\ pc' = "responded"
    /\ UNCHANGED <<messagesDb, contactsDbs, pager, faults, conns>>

InitRoundTrip ==
    /\ messagesDb = MakeMessagesDb(<<>>)
    /\ contactsDbs \in ContactsDbLists
    /\ pc = "start"
    /\ resp = NoResp
    /\ pager = NoPager
    /\ faults = NoFaults
    /\ conns = createServer(contactsDbs)

NextRoundTrip ==
    \/ StartupProbe
    \/ SearchContactsTool
    \/ LookupReturnedHandle
    \/ Return
    \/ Shutdown

SpecRoundTrip == InitRoundTrip /\ [][NextRoundTrip]_vars

-----------------------------------------------------------------------------
(* The exported functions, each called on its own on one argument *)

\* phone numbers: a lead, a run of digits, a separator, a run of digits
PhoneLeads == {<<>>, <<"+">>, <<"1">>, <<"+", "1">>, <<"(">>, <<"x">>}
PhoneSeparators == {<<>>, <<"-">>, <<"+">>, <<" ">>}
DigitRun(n) == [i \in 1..n |-> "5"]

PhoneInputs ==
    {lead \o DigitRun(a) \o sep \o DigitRun(b) :
        lead \in PhoneLeads, sep \in PhoneSeparators, a \in 0..MaxRun, b \in 0..MaxRun}

\* blobs: absent, or fewer than MaxBlob bytes and markers, a run of plain bytes
\* (none, or so many that the lengths on both sides of the wrapper's 18
\* characters occur), and up to MaxBlob more
BlobBytes == {"h", " ", "\n", InvalidByte, NSNumber, NSString, NSDictionary}
PlainRun(n) == [i \in 1..n |-> "p"]

BlobInputs ==
    {Null} \cup {a \o PlainRun(n) \o b :
                    a \in SeqsUpTo(BlobBytes, MaxBlob - 1), b \in SeqsUpTo(BlobBytes, MaxBlob),
                    n \in {0, 17}}

\* archive timestamps of the first seconds after 2001-01-01
NanoInputs ==
    {0, 1, 59, 60, 119, 120, 1953125, 500000000, 700000000, 999999940, 999999999}

TimestampInputs == {[sec |-> q, nano |-> r] : q \in 0..MaxSec, r \in NanoInputs}

PhoneCalls ==
    {[op |-> "call", fn |-> "normalizePhoneNumber", arg |-> phone] : phone \in PhoneInputs}
BlobCalls ==
    {[op |-> "call", fn |-> "decodeAttributedBody", arg |-> blob] : blob \in BlobInputs}
TimestampCalls ==
    {[op |-> "call", fn |-> "convertAppleTimestamp", arg |-> t] : t \in TimestampInputs}

InitFunctions ==
    /\ messagesDb = MakeMessagesDb(<<>>)
    /\ contactsDbs = <<>>
    /\ pc = "call"
    /\ \/ resp \in PhoneCalls
       \/ resp \in BlobCalls
       \/ resp \in TimestampCalls
    /\ pager = NoPager
    /\ faults = NoFaults
    /\ conns = <<>>

CallNormalizePhoneNumber ==
    /\ pc = "call"
    /\ resp.fn = "normalizePhoneNumber"
    /\ resp' = [op |-> "normalizePhoneNumber", arg |-> resp.arg,
                returned |-> normalizePhoneNumber(resp.arg)]
    /\ pc' = "returned"
    /\ UNCHANGED <<messagesDb, contactsDbs, pager, faults, conns>>

CallDecodeAttributedBody ==
    /\ pc = "call"
    /\ resp.fn = "decodeAttributedBody"
    /\ resp' = [op |-> "decodeAttributedBody", arg |-> resp.arg,
                returned |-> decodeAttributedBody(resp.arg)]
    /\ pc' = "returned"
    /\ UNCHANGED <<messagesDb, contactsDbs, pager, faults, conns>>

\* convertAppleTimestamp, and the inverse of searchMessages on what it returned
CallConvertAppleTimestamp ==
    /\ pc = "call"
    /\ resp.fn = "convertAppleTimestamp"
    /\ resp' = [op |-> "convertAppleTimestamp", arg |-> resp.arg,
                returned |-> convertAppleTimestamp(resp.arg),
                back |-> SecondsToArchiveNanos(convertAppleTimestamp(resp.arg))]
    /\ pc' = "returned"
    /\ UNCHANGED <<messagesDb, contactsDbs, pager, faults, conns>>

NextFunctions ==
    \/ CallNormalizePhoneNumber
    \/ CallDecodeAttributedBody
    \/ CallConvertAppleTimestamp

SpecFunctions == InitFunctions /\ [][NextFunctions]_vars

-----------------------------------------------------------------------------
(* Properties *)

Responded(op) == pc = "responded" /\ resp.op = op

PaginatedOps ==
    {"search_messages", "get_recent_messages", "get_chats", "get_handles",
     "get_messages_from_chat", "search_contacts", "lookup_contact_by_handle"}

\* C1: every paginated response (limit >= 1, offset >= 0) has
\* hasMore = (offset + limit < total), page = floor(offset / limit) + 1 and
\* totalPages = ceil(total / limit), so totalPages = 0 when total = 0.
\* floor and ceil are stated by their defining inequalities.
C1_PaginationMetadata ==
    (pc = "responded" /\ resp.op \in PaginatedOps) =>
        LET p == resp.result.pagination
        IN  (p.limit >= 1 /\ p.offset >= 0) =>
              /\ p.hasMore = (p.offset + p.limit < p.total)
              /\ (p.page - 1) * p.limit <= p.offset
              /\ p.offset < p.page * p.limit
              /\ (p.totalPages - 1) * p.limit < p.total
              /\ p.total <= p.totalPages * p.limit
              /\ (p.total = 0 => p.totalPages = 0)

\* a second page of a search with more to come, of a total the limit divides
C1_Witness ==
    /\ Responded("search_messages")
    /\ resp.result.pagination.total = 2
    /\ resp.result.pagination.limit = 1
    /\ resp.result.pagination.offset = 1
    /\ resp.result.pagination.page = 2
    /\ resp.result.pagination.totalPages = 2
    /\ ~resp.result.pagination.hasMore

\* the pager has followed hasMore to the end
PagerDone == pc = "paging" /\ ~Last(pager.results).pagination.hasMore

RECURSIVE PagedGuids(_)
PagedGuids(results) ==
    IF results = <<>> THEN <<>>
    ELSE [k \in 1..Len(Head(results).data) |-> Head(results).data[k].guid]
             \o PagedGuids(Tail(results))

\* C2: on an unchanging store, paging through searchMessages from offset 0 in
\* steps of limit while hasMore holds returns min(limit, total - offset) rows
\* per call, takes ceil(total / limit) calls (one when total = 0), and the
\* pages together hold every matching message exactly once.
C2_PagingCompleteOnce ==
    PagerDone =>
        LET matching == MatchingMessages(messagesDb, pager.options)
            total == Cardinality(matching)
            limit == pager.options.limit
            guids == PagedGuids(pager.results)
        IN  /\ \A k \in 1..Len(pager.results) :
                  Len(pager.results[k].data) = Min(limit, total - (k - 1) * limit)
            /\ Len(pager.results) = IF total = 0 THEN 1 ELSE MathCeilDiv(total, limit)
            /\ \A i \in matching :
                  Cardinality({k \in 1..Len(guids) : guids[k] = messagesDb.message[i].guid}) = 1

\* the part of C2 that does not depend on the order of equal timestamps:
\* the sizes of the pages and the number of calls
C2_PageSizes ==
    PagerDone =>
        LET total == Cardinality(MatchingMessages(messagesDb, pager.options))
            limit == pager.options.limit
        IN  /\ \A k \in 1..Len(pager.results) :
                  Len(pager.results[k].data) = Min(limit, total - (k - 1) * limit)
            /\ Len(pager.results) = IF total = 0 THEN 1 ELSE MathCeilDiv(total, limit)

\* C3: no operation changes the content of the messaging store or of a
\* contact store.
C3_StoresUnchanged ==
    [][messagesDb' = messagesDb /\ contactsDbs' = contactsDbs]_vars

\* a search has returned rows, one of them with decoded text
C3_Witness ==
    /\ Responded("search_messages")
    /\ \E k \in 1..Len(resp.result.data) :
          /\ resp.result.data[k].text = <<"h", "i">>
          /\ messagesDb.message[resp.result.data[k].guid].text # <<"h", "i">>

\* text contains q as a substring, character for character
ContainsSubstring(text, q) ==
    text # Null /\ \E i \in 0..(Len(text) - Len(q)) : SubSeq(text, i + 1, i + Len(q)) = q

\* the query cut at its "%" characters, empty pieces dropped
RECURSIVE PercentSegments(_)
PercentSegments(q) ==
    IF q = <<>> THEN <<>>
    ELSE IF Head(q) = "%" THEN PercentSegments(Tail(q))
    ELSE LET n == IF Includes(q, "%") THEN IndexOf(q, "%") - 1 ELSE Len(q)
         IN  <<SubSeq(q, 1, n)>> \o PercentSegments(SubSeq(q, n + 1, Len(q)))

\* seg lies in text at position pos: "_" stands for any character, and ASCII
\* letters match without regard to case
SegmentAt(text, seg, pos) ==
    /\ pos + Len(seg) - 1 <= Len(text)
    /\ \A k \in 1..Len(seg) : seg[k] = "_" \/ Fold(seg[k]) = Fold(text[pos + k - 1])

\* text matches LIKE '%q%': the pieces of q lie in text one after the other
LikeContains(text, q) ==
    /\ text # Null
    /\ LET segs == PercentSegments(q)
       IN  \E f \in [1..Len(segs) -> 1..(Len(text) + 1)] :
              /\ \A k \in 1..Len(segs) : SegmentAt(text, segs[k], f[k])
              /\ \A k \in 1..(Len(segs) - 1) : f[k + 1] >= f[k] + Len(segs[k])

\* the filter the claim describes, with TextMatch as its meaning of a text match
ClaimedFilter(options, i, TextMatch(_, _)) ==
    LET m == messagesDb.message[i]
    IN  /\ Truthy(options.query) => TextMatch(m.text, options.query)
        /\ Truthy(options.handle) => JoinedHandleId(messagesDb, m) = options.handle
        /\ options.startDate # NoDate => AtOrAfter(m.date, toArchiveNanos(options.startDate))
        /\ options.endDate # NoDate => AtOrBefore(m.date, toArchiveNanos(options.endDate))

SearchAnswers(TextMatch(_, _)) ==
    Responded("search_messages") =>
        LET options == resp.args
            satisfying == {i \in 1..Len(messagesDb.message) : ClaimedFilter(options, i, TextMatch)}
            data == resp.result.data
        IN  /\ resp.result.pagination.total = Cardinality(satisfying)
            /\ \A k \in 1..Len(data) : data[k].guid \in satisfying
            /\ Len(data) = Min(options.limit, Max(0, Cardinality(satisfying) - options.offset))

\* C4 as stated: total counts the messages that satisfy every supplied filter,
\* a text filter meaning that the text contains the query; every returned row
\* satisfies the filters; a filter not supplied constrains nothing.
C4_SubstringFilter == SearchAnswers(ContainsSubstring)

\* C4 amended: the same, a text filter meaning that the text matches the SQL
\* pattern '%query%' under LIKE (ASCII letters without regard to case, "_" in
\* the query for any one character, "%" for any run of characters).
C4_LikeFilter == SearchAnswers(LikeContains)

\* a search by text and start bound that returns a row whose text differs from
\* the query in case, while a message dated exactly at the bound is counted
C4_Witness ==
    /\ Responded("search_messages")
    /\ resp.args.query = <<"a">>
    /\ resp.args.startDate # NoDate
    /\ resp.result.pagination.total = 1
    /\ \E k \in 1..Len(resp.result.data) :
          messagesDb.message[resp.result.data[k].guid].text = <<"A">>

MessageOps == {"search_messages", "get_recent_messages", "get_messages_from_chat"}

\* C5: a returned message whose stored text is absent or empty and whose blob
\* is present carries the output of decodeAttributedBody as its text; no
\* returned message has an absent text with a present blob; the blob is not
\* part of a returned message.
C5_DecodedText ==
    (pc = "responded" /\ resp.op \in MessageOps) =>
        \A k \in 1..Len(resp.result.data) :
            LET row == resp.result.data[k]
                m == messagesDb.message[row.guid]
            IN  /\ (m.text \in {Null, <<>>} /\ m.attributedBody # Null)
                       => row.text = decodeAttributedBody(m.attributedBody)
                /\ ~(row.text = Null /\ m.attributedBody # Null)
                /\ "attributedBody" \notin DOMAIN row

\* one response with a row decoded from an empty stored text and a row whose
\* blob decodes to the empty string
C5_Witness ==
    /\ pc = "responded" /\ resp.op \in MessageOps
    /\ \E k \in 1..Len(resp.result.data) :
          /\ messagesDb.message[resp.result.data[k].guid].text = <<>>
          /\ resp.result.data[k].text = <<"h", "i">>
    /\ \E k \in 1..Len(resp.result.data) :
          /\ messagesDb.message[resp.result.data[k].guid].text = Null
          /\ messagesDb.message[resp.result.data[k].guid].attributedBody # Null
          /\ resp.result.data[k].text = <<>>

OrderedOps == {"search_messages", "get_messages_from_chat"}

\* C6: the returned rows are in non-increasing order of raw timestamp, and
\* rows with equal timestamps are in the store's row order.
C6_NativeTieOrder ==
    (pc = "responded" /\ resp.op \in OrderedOps) =>
        \A k \in 1..(Len(resp.result.data) - 1) :
            LET a == resp.result.data[k].guid
                b == resp.result.data[k + 1].guid
            IN  /\ RawGE(messagesDb.message[a].date, messagesDb.message[b].date)
                /\ messagesDb.message[a].date = messagesDb.message[b].date => a < b

\* the part of C6 the ORDER BY clause does state
C6_DateOrder ==
    (pc = "responded" /\ resp.op \in OrderedOps) =>
        \A k \in 1..(Len(resp.result.data) - 1) :
            RawGE(messagesDb.message[resp.result.data[k].guid].date,
                  messagesDb.message[resp.result.data[k + 1].guid].date)

\* the contacts pushed by the scan of the last search_contacts call, in order
Scanned == ScannedContacts(contactsDbs, resp.scan)

\* the store the k-th scanned contact came from
StoreOfScanned(k) ==
    CHOOSE d \in 1..Len(resp.scan) :
        /\ k <= Len(ScannedContacts(SubSeq(contactsDbs, 1, d), SubSeq(resp.scan, 1, d)))
        /\ k > Len(ScannedContacts(SubSeq(contactsDbs, 1, d - 1), SubSeq(resp.scan, 1, d - 1)))

SameTriple(a, b) ==
    /\ a.firstName = b.firstName
    /\ a.lastName = b.lastName
    /\ a.organization = b.organization

\* positions j < k of the scan hold the only two records of their triple, from
\* two different stores, and no other scanned contact has their display name
DuplicatePair(j, k) ==
    /\ j < k
    /\ SameTriple(Scanned[j], Scanned[k])
    /\ StoreOfScanned(j) # StoreOfScanned(k)
    /\ \A i \in 1..Len(Scanned) :
          i \notin {j, k} => /\ DedupKey(Scanned[i]) # DedupKey(Scanned[j])
                             /\ Scanned[i].fullName # Scanned[j].fullName

EntriesNamed(name) == SelectSeq(resp.allContactInfos, LAMBDA e : e.name = name)

\* the number of distinct dedup keys scanned before position j
DistinctBefore(j) == Cardinality({DedupKey(Scanned[i]) : i \in 1..(j - 1)})

\* C7 as stated: of two records with identical triples found in two different
\* stores, the flattened list holds the entries of exactly one, the record of
\* the store scanned earlier.
C7_EarlierStoreWins ==
    Responded("search_contacts") =>
        \A j, k \in 1..Len(Scanned) :
            DuplicatePair(j, k) =>
                EntriesNamed(Scanned[j].fullName) = ContactInfosOf(Scanned[j])

\* C7 amended: the flattened list holds the entries of exactly one of the two,
\* the record of the store scanned later, when the pair is among the first
\* ContactScanLimit distinct contacts of the scan, and of neither beyond them.
C7_LaterStoreWins ==
    Responded("search_contacts") =>
        \A j, k \in 1..Len(Scanned) :
            DuplicatePair(j, k) =>
                EntriesNamed(Scanned[j].fullName) =
                    IF DistinctBefore(j) < ContactScanLimit
                    THEN ContactInfosOf(Scanned[k])
                    ELSE <<>>

\* two records of one triple with different entries, from two stores
C7_Witness ==
    /\ Responded("search_contacts")
    /\ \E j, k \in 1..Len(Scanned) :
          /\ DuplicatePair(j, k)
          /\ ContactInfosOf(Scanned[j]) # ContactInfosOf(Scanned[k])
          /\ EntriesNamed(Scanned[j].fullName) = ContactInfosOf(Scanned[k])
          /\ EntriesNamed(Scanned[j].fullName) # <<>>

\* one entry per phone number (normalized), then one per email address
EntriesPerHandle(c) ==
    LET p == Len(c.phoneNumbers)
        e == Len(c.emailAddresses)
    IN  [n \in 1..(p + e) |->
            [name |-> c.fullName,
             phone |-> IF n <= p THEN normalizePhoneNumber(c.phoneNumbers[n])
                       ELSE c.emailAddresses[n - p]]]

RECURSIVE ConcatAll(_)
ConcatAll(lists) ==
    IF lists = <<>> THEN <<>> ELSE Head(lists) \o ConcatAll(Tail(lists))

ConcatEntries(contacts, Entries(_)) ==
    ConcatAll([i \in 1..Len(contacts) |-> Entries(contacts[i])])

Survivors == UniqueByKey(Scanned)

\* C8 as stated: each contact surviving deduplication contributes exactly
\* p + e entries: one per phone with the normalized number, then one per email
\* with the address unchanged, in store order, each with its display name.
C8_EntryPerHandle ==
    Responded("search_contacts") =>
        resp.allContactInfos = ConcatEntries(Survivors, EntriesPerHandle)

NonEmptyEntries(c) == SelectSeq(EntriesPerHandle(c), LAMBDA e : e.phone # <<>>)

\* C8 amended: each of the first ContactScanLimit contacts surviving
\* deduplication contributes one entry per non-empty phone number and then one
\* per non-empty email address (p + e entries when none is empty); a contact
\* beyond them contributes none.
C8_EntryPerNonEmptyHandle ==
    Responded("search_contacts") =>
        resp.allContactInfos =
            ConcatEntries(Slice(Survivors, 0, ContactScanLimit), NonEmptyEntries)

\* a surviving contact with two phones and one with a phone and an email
C8_Witness ==
    /\ Responded("search_contacts")
    /\ Len(Survivors) = 2
    /\ Len(Survivors[1].phoneNumbers) = 2
    /\ Len(Survivors[2].phoneNumbers) = 1 /\ Len(Survivors[2].emailAddresses) = 1
    /\ Len(resp.allContactInfos) = 4

PageOf(list) ==
    LET args == resp.args
        data == resp.result.data
    IN  /\ resp.result.pagination.total = Len(list)
        /\ Len(data) = Min(args.limit, Max(0, Len(list) - args.offset))
        /\ \A n \in 1..Len(data) : data[n] = list[args.offset + n]

\* C9 as stated: total is the length of the flattened list of all matching
\* contacts, and data holds its elements offset .. offset + limit - 1.
C9_PageOfAllMatches ==
    Responded("search_contacts") => PageOf(ConcatEntries(Survivors, NonEmptyEntries))

\* C9 amended: total is the length of the flattened list of the first
\* ContactScanLimit deduplicated matching contacts, and data holds the
\* elements offset .. offset + limit - 1 of that list.
C9_PageOfScannedMatches ==
    Responded("search_contacts") =>
        PageOf(ConcatEntries(Slice(Survivors, 0, ContactScanLimit), NonEmptyEntries))

\* a second page that ends before the list does
C9_Witness ==
    /\ Responded("search_contacts")
    /\ resp.args.offset = 1 /\ resp.args.limit = 2
    /\ resp.result.pagination.total = 4
    /\ Len(resp.result.data) = 2
    /\ resp.result.data[1] = resp.allContactInfos[2]

HasPhone(store, handle) ==
    \E i \in 1..Len(store) : \E k \in 1..Len(store[i].phones) : store[i].phones[k] = handle

HasEmail(store, handle) ==
    \E i \in 1..Len(store) : \E k \in 1..Len(store[i].emails) : store[i].emails[k] = handle

StoreMatches(store, handle) ==
    HasPhone(store, handle) \/ ("@" \in {handle[n] : n \in 1..Len(handle)} /\ HasEmail(store, handle))

\* C10: the stores are scanned in order, each by phone first and by email only
\* when the phone match fails and the handle contains "@"; the first hit is
\* returned with found = true; with no hit the result is one entry with
\* found = false and null firstName, lastName, organization and displayName.
C10_FirstHitOrSentinel ==
    Responded("lookup_contact_by_handle") =>
        LET handle == resp.args.handle
            entry == resp.result.data[1]
            hits == {d \in 1..Len(contactsDbs) : StoreMatches(contactsDbs[d], handle)}
        IN  /\ Len(resp.result.data) = 1
            /\ entry.handle = handle
            /\ hits = {} =>
                  /\ entry.found = FALSE
                  /\ entry.firstName = Null /\ entry.lastName = Null
                  /\ entry.organization = Null /\ entry.displayName = Null
            /\ hits # {} =>
                  LET store == contactsDbs[CHOOSE d \in hits : \A x \in hits : d <= x]
                      byPhone == HasPhone(store, handle)
                  IN  /\ entry.found = TRUE
                      /\ \E i \in 1..Len(store) :
                            /\ \E k \in 1..Len(IF byPhone THEN store[i].phones ELSE store[i].emails) :
                                  (IF byPhone THEN store[i].phones ELSE store[i].emails)[k] = handle
                            /\ entry.firstName = OrNull(store[i].ZFIRSTNAME)
                            /\ entry.lastName = OrNull(store[i].ZLASTNAME)
                            /\ entry.organization = OrNull(store[i].ZORGANIZATION)

\* a hit by email in the second store, the first store holding no match
C10_Witness ==
    /\ Responded("lookup_contact_by_handle")
    /\ Len(contactsDbs) = 2
    /\ ~StoreMatches(contactsDbs[1], resp.args.handle)
    /\ ~HasPhone(contactsDbs[2], resp.args.handle)
    /\ resp.result.data[1].found
    /\ resp.result.data[1].organization = <<"a">>

\* a handle without "@" that only an email address equals is not found
C10_SentinelWitness ==
    /\ Responded("lookup_contact_by_handle")
    /\ \E d \in 1..Len(contactsDbs) : HasEmail(contactsDbs[d], resp.args.handle)
    /\ ~resp.result.data[1].found

\* the records of store d that the match query of the last search_contacts call selects
MatchedIn(d) ==
    MatchingContacts(contactsDbs[d], resp.args.firstName, resp.args.lastName)

HealthyStores == (1..Len(contactsDbs)) \ faults.contacts

\* the dedup keys of all contacts matched in the stores that answer
HealthyKeys ==
    UNION {{DedupKey(MakeContact(contactsDbs[d], i)) : i \in MatchedIn(d)} : d \in HealthyStores}

\* no other matched contact of an answering store has the dedup key of record i of store d
OnlyOfItsKey(d, i) ==
    \A e \in HealthyStores : \A j \in MatchedIn(e) :
        <<e, j>> # <<d, i>> =>
            DedupKey(MakeContact(contactsDbs[e], j)) # DedupKey(MakeContact(contactsDbs[d], i))

Listed(entries) ==
    \A n \in 1..Len(entries) :
        \E m \in 1..Len(resp.allContactInfos) : resp.allContactInfos[m] = entries[n]

C12_AllStoresFailIsAnError ==
    (/\ Responded("search_contacts")
     /\ contactsDbs # <<>>
     /\ HealthyStores = {}) => "error" \in DOMAIN resp

MessagingOps ==
    {"search_messages", "get_recent_messages", "get_chats", "get_handles",
     "get_messages_from_chat"}

\* C13: when the messaging store's query raises inside one of the five
\* messaging operations, the tool responds (the handler returns) with a text
\* that starts with a prefix only this tool uses and ends with the
\* exception's message, and with no result set.
C13_FailureIsAnErrorResponse ==
    \A op \in MessagingOps :
        (Responded(op) /\ faults.messages) =>
            /\ "error" \in DOMAIN resp
            /\ "result" \notin DOMAIN resp
            /\ resp.error # <<>>
            /\ \A other \in DOMAIN ErrorPrefix :
                  (<<Head(resp.error)>> = ErrorPrefix[other]) <=> (other = op)
            /\ Tail(resp.error) = QueryError

\* get_chats answers a failing messaging store with its error text
C13_Witness ==
    /\ Responded("get_chats")
    /\ faults.messages
    /\ messagesDb.chat # <<>>
    /\ resp.error = <<"Error getting chats: ", "disk I/O error">>

Returned(fn) == pc = "returned" /\ resp.op = fn

\* the input with every character other than digits and "+" removed
Stripped(phone) == SelectSeq(phone, LAMBDA c : c \in Digits \/ c = "+")

AllDigits(s) == \A i \in 1..Len(s) : s[i] \in Digits

NormalizedAs(phone, TenDigits(_), ElevenDigits(_)) ==
    LET stripped == Stripped(phone)
    IN  IF stripped # <<>> /\ stripped[1] = "+" THEN stripped
        ELSE IF TenDigits(stripped) THEN <<"+", "1">> \o stripped
        ELSE IF ElevenDigits(stripped) /\ stripped[1] = "1" THEN <<"+">> \o stripped
        ELSE IF stripped = <<>> THEN phone
        ELSE stripped

\* C14 as stated: the stripped string unchanged when it starts with "+"; "+1"
\* before it when it is exactly 10 digits; "+" before it when it is exactly 11
\* digits starting with "1"; otherwise the stripped string, or the input
\* unchanged when the stripped string is empty.
C14_TenOrElevenDigits ==
    Returned("normalizePhoneNumber") =>
        resp.returned = NormalizedAs(resp.arg,
                                     LAMBDA s : Len(s) = 10 /\ AllDigits(s),
                                     LAMBDA s : Len(s) = 11 /\ AllDigits(s))

\* C14 amended: the same with "exactly 10 digits" and "exactly 11 digits" read
\* as exactly 10 and exactly 11 characters of the stripped string, which may
\* hold "+" signs after its first character.
C14_TenOrElevenCharacters ==
    Returned("normalizePhoneNumber") =>
        resp.returned = NormalizedAs(resp.arg,
                                     LAMBDA s : Len(s) = 10,
                                     LAMBDA s : Len(s) = 11)

\* ten digits with a separator get the "+1" prefix
C14_Witness ==
    /\ Returned("normalizePhoneNumber")
    /\ resp.arg = <<"(">> \o DigitRun(4) \o <<"-">> \o DigitRun(6)
    /\ resp.returned = <<"+", "1">> \o DigitRun(10)

NonNull(s) == s # Null

\* "first last" when both are present, else the first name, else the last
\* name, else the organization, else the fallback
NameOf(r, Present(_), fallback) ==
    IF Present(r.ZFIRSTNAME) /\ Present(r.ZLASTNAME)
    THEN r.ZFIRSTNAME \o <<" ">> \o r.ZLASTNAME
    ELSE IF Present(r.ZFIRSTNAME) THEN r.ZFIRSTNAME
    ELSE IF Present(r.ZLASTNAME) THEN r.ZLASTNAME
    ELSE IF Present(r.ZORGANIZATION) THEN r.ZORGANIZATION
    ELSE fallback

\* the records the last search_contacts call scanned
ScannedRecords ==
    UNION {{contactsDbs[d][resp.scan[d][k]] : k \in 1..Len(resp.scan[d])} :
              d \in 1..Len(resp.scan)}

\* the records of the stores one handle of which is the looked-up handle
RecordsWithHandle ==
    UNION {{contactsDbs[d][i] : i \in {j \in 1..Len(contactsDbs[d]) :
                \/ \E k \in 1..Len(contactsDbs[d][j].phones) :
                      contactsDbs[d][j].phones[k] = resp.args.handle
                \/ \E k \in 1..Len(contactsDbs[d][j].emails) :
                      contactsDbs[d][j].emails[k] = resp.args.handle}} :
              d \in 1..Len(contactsDbs)}

\* every name of the result is Names(r) of a scanned (matched) record r
SurfacedNames(SearchNames(_), LookupNames(_)) ==
    /\ Responded("search_contacts") =>
          \A m \in 1..Len(resp.allContactInfos) :
              \E r \in ScannedRecords : resp.allContactInfos[m].name \in SearchNames(r)
    /\ (Responded("lookup_contact_by_handle") /\ resp.result.data[1].found) =>
          \E r \in RecordsWithHandle :
              /\ resp.result.data[1].displayName \in LookupNames(r)
              /\ resp.result.data[1].firstName = OrNull(r.ZFIRSTNAME)
              /\ resp.result.data[1].lastName = OrNull(r.ZLASTNAME)
              /\ resp.result.data[1].organization = OrNull(r.ZORGANIZATION)

\* C15 as stated: the display name of every contact surfaced by
\* searchContactsByName or lookupContactByHandle is "first last", else the
\* first name, else the last name, else the organization, else "Unknown"
\* (a name part counting as present either when it is not null or when it is
\* neither null nor empty).
C15_UnknownFallback ==
    SurfacedNames(LAMBDA r : {NameOf(r, Truthy, Unknown), NameOf(r, NonNull, Unknown)},
                  LAMBDA r : {NameOf(r, Truthy, Unknown), NameOf(r, NonNull, Unknown)})

\* C15 amended: in searchContactsByName a name part is present when it is
\* neither null nor empty and the fallback is "Unknown"; in
\* lookupContactByHandle a name part is present when it is not null (an empty
\* string is present) and the fallback is "Unknown Contact".
C15_FallbackPerOperation ==
    SurfacedNames(LAMBDA r : {NameOf(r, Truthy, Unknown)},
                  LAMBDA r : {NameOf(r, NonNull, UnknownContact)})

\* a lookup finds a record without first name, last name and organization
C15_Witness ==
    /\ Responded("lookup_contact_by_handle")
    /\ resp.result.data[1].found
    /\ resp.result.data[1].displayName = UnknownContact
    /\ \A r \in RecordsWithHandle :
          r.ZFIRSTNAME = Null /\ r.ZLASTNAME = Null /\ r.ZORGANIZATION = Null

\* a search surfaces a record whose only name is its last name
C15_SearchWitness ==
    /\ Responded("search_contacts")
    /\ resp.allContactInfos # <<>>
    /\ resp.allContactInfos[1].name = <<"b">>
    /\ \A r \in ScannedRecords : ~Truthy(r.ZFIRSTNAME) /\ r.ZLASTNAME = <<"b">>

Populated(r) ==
    NonNull(r.ZFIRSTNAME) \/ NonNull(r.ZLASTNAME) \/ NonNull(r.ZORGANIZATION)

\* the rows each store delivered are the records Selected(r, firstName, lastName) holds of
MatchQuerySelects(Selected(_, _, _)) ==
    Responded("search_contacts") =>
        \A d \in 1..Len(contactsDbs) :
            {resp.scan[d][k] : k \in 1..Len(resp.scan[d])} =
                {i \in 1..Len(contactsDbs[d]) :
                    Selected(contactsDbs[d][i], resp.args.firstName, resp.args.lastName)}

\* C16 as stated: with both name parts blank, every contact with a first name,
\* last name or organization; with both given, the contacts whose first name
\* contains firstName and whose last name contains lastName; with firstName
\* only, the contacts whose first name, last name, organization or nickname
\* contains firstName.
C16_ContainsSelection ==
    MatchQuerySelects(
        LAMBDA r, firstName, lastName :
            IF firstName = <<>> /\ ~Truthy(lastName) THEN Populated(r)
            ELSE IF Truthy(lastName)
            THEN /\ ContainsSubstring(r.ZFIRSTNAME, firstName)
                 /\ ContainsSubstring(r.ZLASTNAME, lastName)
            ELSE \/ ContainsSubstring(r.ZFIRSTNAME, firstName)
                 \/ ContainsSubstring(r.ZLASTNAME, firstName)
                 \/ ContainsSubstring(r.ZORGANIZATION, firstName)
                 \/ ContainsSubstring(r.ZNICKNAME, firstName))

\* C16 amended: "contains" is a match of the SQL pattern '%part%' under LIKE
\* (ASCII letters without regard to case, "_" for any one character, "%" for
\* any run), and the firstName-only query selects a contact only if its first
\* name, last name or organization is not null: a contact that has only a
\* nickname is never selected.
C16_LikeSelection ==
    MatchQuerySelects(
        LAMBDA r, firstName, lastName :
            IF firstName = <<>> /\ ~Truthy(lastName) THEN Populated(r)
            ELSE IF Truthy(lastName)
            THEN /\ LikeContains(r.ZFIRSTNAME, firstName)
                 /\ LikeContains(r.ZLASTNAME, lastName)
            ELSE /\ \/ LikeContains(r.ZFIRSTNAME, firstName)
                    \/ LikeContains(r.ZLASTNAME, firstName)
                    \/ LikeContains(r.ZORGANIZATION, firstName)
                    \/ LikeContains(r.ZNICKNAME, firstName)
                 /\ Populated(r))

\* a firstName-only search selects a record through its nickname alone
C16_Witness ==
    /\ Responded("search_contacts")
    /\ resp.args.firstName = <<"a">>
    /\ resp.args.lastName = Null
    /\ resp.scan = <<<<1>>>>
    /\ contactsDbs[1][1].ZNICKNAME = <<"a">>
    /\ contactsDbs[1][1].ZFIRSTNAME = <<"B">>
    /\ contactsDbs[1][1].ZLASTNAME = <<"b">>
    /\ contactsDbs[1][1].ZORGANIZATION = Null

\* the membership links to the chats with the guid of the last get_messages_from_chat call
LinksOfChat ==
    {j \in messagesDb.chat_message_join :
        \E c \in 1..Len(messagesDb.chat) :
            c = j.chat_id /\ messagesDb.chat[c].guid = resp.args.chatGuid}

\* C17: getMessagesFromChat counts and returns only messages linked through
\* the chat-membership relation to the chat with the guid: total is the number
\* of such links, every returned message is a member of the chat, and a guid
\* of no chat gives empty data with total = 0 and totalPages = 0.
C17_ChatMembersOnly ==
    Responded("get_messages_from_chat") =>
        /\ "result" \in DOMAIN resp
        /\ resp.result.pagination.total = Cardinality(LinksOfChat)
        /\ \A k \in 1..Len(resp.result.data) :
              \E j \in LinksOfChat : j.message_id = resp.result.data[k].guid
        /\ (\A c \in 1..Len(messagesDb.chat) : messagesDb.chat[c].guid # resp.args.chatGuid) =>
              /\ resp.result.data = <<>>
              /\ resp.result.pagination.total = 0
              /\ resp.result.pagination.totalPages = 0

\* of two stored messages one is a member of the chat and is returned
C17_Witness ==
    /\ Responded("get_messages_from_chat")
    /\ resp.args.chatGuid = <<"c", "2">>
    /\ Len(messagesDb.message) = 2
    /\ messagesDb.chat_message_join # {}
    /\ resp.result.pagination.total = 1
    /\ Len(resp.result.data) = 1
    /\ [chat_id |-> 1, message_id |-> 3 - resp.result.data[1].guid] \in messagesDb.chat_message_join

\* a guid of no chat gives an empty page although the store holds linked messages
C17_UnknownChatWitness ==
    /\ Responded("get_messages_from_chat")
    /\ resp.args.chatGuid = <<"c", "9">>
    /\ messagesDb.chat_message_join # {}
    /\ resp.result.data = <<>>
    /\ resp.result.pagination.totalPages = 0

\* a JS string: a sequence of characters, not null and with no raw invalid byte
IsString(x) == x # Null /\ \A i \in 1..Len(x) : x[i] # InvalidByte

\* C18: decodeAttributedBody returns a string for every input: the empty
\* string for an absent blob and for an empty blob, and a string for any byte
\* sequence, invalid UTF-8 and blobs of marker tokens only included.
C18_AlwaysAString ==
    Returned("decodeAttributedBody") =>
        /\ IsString(resp.returned)
        /\ resp.arg \in {Null, <<>>} => resp.returned = <<>>

\* a blob of an invalid byte between two markers yields the replacement character
C18_Witness ==
    /\ Returned("decodeAttributedBody")
    /\ resp.arg = <<NSString, InvalidByte, NSString>>
    /\ resp.returned = <<ReplacementChar>>

\* an absent blob yields the empty string
C18_AbsentWitness ==
    /\ Returned("decodeAttributedBody")
    /\ resp.arg = Null
    /\ resp.returned = <<>>

C19_LostNanosecondWitness ==
    /\ Returned("convertAppleTimestamp")
    /\ resp.arg = [sec |-> 0, nano |-> 1]
    /\ resp.back = [sec |-> 0, nano |-> 0, frac |-> 0]

\* the scan with the rows of each store cut to the first ContactScanLimit
CappedPerStore ==
    ScannedContacts(contactsDbs,
                    [d \in 1..Len(resp.scan) |-> Slice(resp.scan[d], 0, ContactScanLimit)])

\* C20 as stated: the truncation to ContactScanLimit rows is applied to the
\* match result of each store separately, before deduplication and flattening,
\* so that the contacts of different stores do not compete for the same slots.
C20_CapPerStore ==
    Responded("search_contacts") =>
        resp.allContactInfos = ConcatEntries(UniqueByKey(CappedPerStore), NonEmptyEntries)

\* the scanned contacts whose triple is among the first ContactScanLimit
\* distinct triples of the whole scan
WithinCap ==
    LET FirstAt(k) == CHOOSE i \in 1..k :
                          /\ DedupKey(Scanned[i]) = DedupKey(Scanned[k])
                          /\ \A j \in 1..(i - 1) : DedupKey(Scanned[j]) # DedupKey(Scanned[k])
        slots == SelectSeq([k \in 1..Len(Scanned) |-> k],
                           LAMBDA k : Cardinality({DedupKey(Scanned[i]) :
                                                      i \in 1..(FirstAt(k) - 1)})
                                          < ContactScanLimit)
    IN  [n \in 1..Len(slots) |-> Scanned[slots[n]]]

\* C20 amended: the truncation is applied once, to the contacts of all stores
\* together: the first ContactScanLimit distinct contacts of the scan, in store
\* order, are flattened, so that the stores compete for the same slots and the
\* contacts of a later store are the first to be left out.
C20_CapAcrossStores ==
    Responded("search_contacts") =>
        resp.allContactInfos = ConcatEntries(UniqueByKey(WithinCap), NonEmptyEntries)

\* two stores, neither with more than ContactScanLimit matches, and a contact
\* of the second store left out
C20_Witness ==
    /\ Responded("search_contacts")
    /\ Len(resp.scan) = 2
    /\ \A d \in 1..2 : Len(resp.scan[d]) <= ContactScanLimit
    /\ Len(Survivors) = ContactScanLimit + 1
    /\ StoreOfScanned(Len(Scanned)) = 2
    /\ ContactInfosOf(Scanned[Len(Scanned)]) # <<>>
    /\ EntriesNamed(Scanned[Len(Scanned)].fullName) = <<>>
    /\ resp.allContactInfos # <<>>

\* C21: in lookupContactByHandle a store whose query raises is skipped and the
\* stores after it are still queried: a match in a store that answers is
\* returned with found = true.
C21_LookupSkipsFailingStore ==
    (/\ Responded("lookup_contact_by_handle")
     /\ \E d \in HealthyStores : StoreMatches(contactsDbs[d], resp.args.handle))
        => /\ "result" \in DOMAIN resp
           /\ resp.result.data[1].found

\* C22: the string normalizePhoneNumber works on holds digits and at most one
\* "+", its first character: a "+" elsewhere in the input is removed, and a
\* result produced from a non-empty stripped string has no "+" after its
\* first character.
C22_PlusOnlyLeads ==
    (Returned("normalizePhoneNumber") /\ Stripped(resp.arg) # <<>>) =>
        \A i \in 2..Len(resp.returned) : resp.returned[i] # "+"

\* the characters of a marker token
MarkerChars ==
    [NSNumber |-> <<"N", "S", "N", "u", "m", "b", "e", "r">>,
     NSString |-> <<"N", "S", "S", "t", "r", "i", "n", "g">>,
     NSDictionary |-> <<"N", "S", "D", "i", "c", "t", "i", "o", "n", "a", "r", "y">>]

\* a string with each marker token written out in its characters
Expand(s) ==
    ConcatAll([i \in 1..Len(s) |->
                  IF s[i] \in DOMAIN MarkerChars THEN MarkerChars[s[i]] ELSE <<s[i]>>])

KeepBefore(s, tok) == IF Includes(s, tok) THEN SubSeq(s, 1, IndexOf(s, tok) - 1) ELSE s
KeepAfter(s, tok) == IF Includes(s, tok) THEN SubSeq(s, IndexOf(s, tok) + 1, Len(s)) ELSE s

\* a string longer than 18 characters without its first 6 and its last 12
Unframed(s) == IF Len(s) > 18 THEN [n \in 1..(Len(s) - 18) |-> s[n + 6]] ELSE s

\* control characters removed, whitespace runs collapsed, both ends trimmed
Cleaned(s) == Trim(CollapseWhitespace(RemoveControl(s)))

AfterNumericCut == KeepBefore(TextDecode(resp.arg), NSNumber)

\* C23: when the decoded string, after the numeric-marker cut, contains the
\* string marker, the text kept is everything after the first occurrence of
\* the marker, text that follows a later occurrence of it included.
C23_KeepsAllAfterFirstMarker ==
    (/\ Returned("decodeAttributedBody")
     /\ resp.arg # Null
     /\ Includes(AfterNumericCut, NSString)) =>
        resp.returned =
            Cleaned(Unframed(Expand(KeepBefore(SubSeq(AfterNumericCut,
                                                      IndexOf(AfterNumericCut, NSString) + 1,
                                                      Len(AfterNumericCut)),
                                               NSDictionary))))

\* C24: the cuts are applied in the order numeric marker (keep before), string
\* marker (keep after), dictionary marker (keep before); a remaining string
\* longer than 18 characters loses its first 6 and its last 12 characters and a
\* shorter one is kept whole; the result is that string with control
\* characters removed, whitespace runs collapsed and both ends trimmed.
C24_CutsFrameAndCleaning ==
    (Returned("decodeAttributedBody") /\ resp.arg # Null) =>
        resp.returned =
            Cleaned(Unframed(Expand(
                KeepBefore(KeepAfter(KeepBefore(TextDecode(resp.arg), NSNumber), NSString),
                           NSDictionary))))

\* the same for the blobs that hold the string marker at most once before the
\* numeric marker
C24_WithOneStringMarker ==
    (/\ Returned("decodeAttributedBody")
     /\ resp.arg # Null
     /\ ~Includes(KeepAfter(AfterNumericCut, NSString), NSString)) =>
        resp.returned =
            Cleaned(Unframed(Expand(
                KeepBefore(KeepAfter(KeepBefore(TextDecode(resp.arg), NSNumber), NSString),
                           NSDictionary))))

ToolConnections == SelectSeq(conns, LAMBDA c : c.by = "createServer")
ProbeConnections == SelectSeq(conns, LAMBDA c : c.by = "main")

\* the store a tool works on
StoreKindOf ==
    [search_messages |-> "messages", get_recent_messages |-> "messages",
     get_chats |-> "messages", get_handles |-> "messages",
     get_messages_from_chat |-> "messages", search_contacts |-> "contacts",
     lookup_contact_by_handle |-> "contacts"]

\* C25: each store connection the tool handlers use is opened at most once, on
\* the first tool call that needs it and not before; later calls reuse it; and
\* the connections are released when the process shuts down.
C25_LazySharedConnections ==
    /\ pc = "start" => ToolConnections = <<>>
    /\ \A i, j \in 1..Len(ToolConnections) :
          (/\ ToolConnections[i].kind = ToolConnections[j].kind
           /\ ToolConnections[i].index = ToolConnections[j].index) => i = j
    /\ pc = "stopped" => \A n \in 1..Len(conns) : ~conns[n].open

\* C30: no tool handler runs a query on a closed connection: the connections
\* main's probe opens and closes are not those of the tool handlers, and every
\* connection the probe opens is closed before the server starts serving,
\* whether the probe succeeds or fails.
C30_ProbeLeavesNothingOpen ==
    /\ \A op \in DOMAIN StoreKindOf :
          Responded(op) =>
              \A n \in 1..Len(ToolConnections) :
                  ToolConnections[n].kind = StoreKindOf[op] => ToolConnections[n].open
    /\ pc # "start" =>
          /\ ProbeConnections # <<>>
          /\ \A n \in 1..Len(ProbeConnections) : ~ProbeConnections[n].open

\* C26: the deduplication of searchContactsByName collapses two contact
\* records only if their (firstName, lastName, organization) triples are equal
\* component by component: two records that differ in a component, one absent
\* and one present included, both survive with all their phone and email
\* entries.
C26_OnlyEqualTriplesCollapse ==
    Responded("search_contacts") =>
        \A j, k \in 1..Len(Scanned) :
            ~SameTriple(Scanned[j], Scanned[k]) =>
                /\ Listed(EntriesPerHandle(Scanned[j]))
                /\ Listed(EntriesPerHandle(Scanned[k]))

\* the same for the records whose names hold neither "-" nor the text `undefined`
PlainName(x) == x = Null \/ (x # Undefined /\ \A n \in 1..Len(x) : x[n] # "-")

C26_PlainNames ==
    Responded("search_contacts") =>
        \A j, k \in 1..Len(Scanned) :
            (/\ ~SameTriple(Scanned[j], Scanned[k])
             /\ \A c \in {Scanned[j], Scanned[k]} :
                   PlainName(c.firstName) /\ PlainName(c.lastName) /\ PlainName(c.organization)) =>
                /\ Listed(EntriesPerHandle(Scanned[j]))
                /\ Listed(EntriesPerHandle(Scanned[k]))

\* C27: for every ContactInfo entry (name, handle) that searchContactsByName
\* returns, lookupContactByHandle with that handle on the same stores returns
\* found = true and a displayName equal to that name, for phone handles and
\* for email handles.
C27_SearchThenLookup ==
    (Responded("lookup_contact_by_handle") /\ "entry" \in DOMAIN resp) =>
        /\ "result" \in DOMAIN resp
        /\ resp.result.data[1].found
        /\ resp.result.data[1].displayName = resp.entry.name

StoredTextOf(row) == messagesDb.message[row.guid].text

TextFilterOnStoredText(TextMatch(_, _)) ==
    (Responded("search_messages") /\ Truthy(resp.args.query)) =>
        /\ \A k \in 1..Len(resp.result.data) :
              /\ StoredTextOf(resp.result.data[k]) # Null
              /\ TextMatch(StoredTextOf(resp.result.data[k]), resp.args.query)
        /\ resp.result.pagination.total <=
              Cardinality({i \in 1..Len(messagesDb.message) :
                              TextMatch(messagesDb.message[i].text, resp.args.query)})

\* C28 as stated: a non-empty text filter is evaluated on the stored primary
\* text only: a message whose primary text is absent is neither returned nor
\* counted in total, even when the text recovered from its blob contains the
\* query, and every returned message contains the query in its stored text.
C28_StoredTextContainsQuery == TextFilterOnStoredText(ContainsSubstring)

\* C28 amended: the same, "contains the query" meaning that the stored text
\* matches the SQL pattern '%query%' under LIKE.
C28_StoredTextMatchesQuery == TextFilterOnStoredText(LikeContains)

\* a search for "a": the message without stored text whose blob reads "a" is
\* left out, the one stored as "ab" is returned and counted
C28_Witness ==
    /\ Responded("search_messages")
    /\ resp.args.query = <<"a">>
    /\ resp.args.handle = Null /\ resp.args.startDate = NoDate /\ resp.args.endDate = NoDate
    /\ resp.args.offset = 0
    /\ \E i \in 1..Len(messagesDb.message) :
          /\ messagesDb.message[i].text = Null
          /\ decodeAttributedBody(messagesDb.message[i].attributedBody) = <<"a">>
    /\ resp.result.pagination.total = 1
    /\ Len(resp.result.data) = 1
    /\ StoredTextOf(resp.result.data[1]) = <<"a", "b">>

\* C29: every message that searchMessages returns for a startTime s and/or an
\* endTime e carries a calendar date with s <= date and date <= e, also when
\* its raw archive timestamp is not a whole number of seconds.
C29_ReturnedDateWithinBounds ==
    Responded("search_messages") =>
        \A k \in 1..Len(resp.result.data) :
            LET date == resp.result.data[k].date
                s == resp.args.startDate
                e == resp.args.endDate
            IN  /\ s # NoDate => date > s.s \/ (date = s.s /\ s.ms = 0)
                /\ e # NoDate => date <= e.s

\* the same for the messages whose raw timestamp is a whole number of seconds
C29_WholeSeconds ==
    Responded("search_messages") =>
        \A k \in 1..Len(resp.result.data) :
            LET date == resp.result.data[k].date
                s == resp.args.startDate
                e == resp.args.endDate
            IN  messagesDb.message[resp.result.data[k].guid].date.nano = 0 =>
                    /\ s # NoDate => date > s.s \/ (date = s.s /\ s.ms = 0)
                    /\ e # NoDate => date <= e.s

=============================================================================
